---- MODULE Spec2Model ----
(***************************************************************************)
(* Model of the news-sentiment trading bot: the day-by-day backtest of     *)
(* backtester.py (run_backtest) with the signal filter, ranker and         *)
(* technical confirmation of bot_modules/decision_engine.py.               *)
(*                                                                         *)
(* Money is exact: every price and cash amount is an integer number of     *)
(* 1/Scale dollars, so the code's float arithmetic is modelled as rational *)
(* arithmetic.  Confidence is an integer percentage.                       *)
(***************************************************************************)
EXTENDS Integers, Sequences, FiniteSets, TLC

VARIABLES price_df, portfolio, trade_log, portfolio_value_log,
          current_date, exit_keys, todays_news, ranked_signals, printed, pc, call,
          seen_news_links, submitted_orders, cycles, pipeline

vars == <<price_df, portfolio, trade_log, portfolio_value_log,
          current_date, exit_keys, todays_news, ranked_signals, printed, pc, call,
          seen_news_links, submitted_orders, cycles, pipeline>>

\* the state of the live bot: main's memory of links, the calls of
\* submit_order so far, the cycles run, the locals of the latest cycle
live_vars == <<seen_news_links, submitted_orders, cycles, pipeline>>

(***************************************************************************)
(* Bounds of the model                                                     *)
(***************************************************************************)
\* number of calendar days between the first and the last news date
NumDays == 3
\* number of price rows dated before the first news date
PreRows == 49
\* largest number of headlines on one day
MaxNews == 2
\* largest number of rows of a table handed to the decision engine alone
MaxRows == 2
\* largest number of rows of a price series handed to the decision engine alone
MaxSeries == 51
\* largest number of articles the feeds return in one cycle of the live bot
MaxFeed == 2
\* number of cycles of the live bot
MaxCycles == 2
\* largest number of rows of a table handed to calculate_atr alone
MaxBars == 3

(***************************************************************************)
(* Program constants                                                       *)
(***************************************************************************)
start_cash_dollars == 100000
period == 14
fast_window == 20
slow_window == 50
confidence_threshold == 90
live_confidence_threshold == 85
\* max_allocation_per_stock = 0.10 and the 0.05 of cash_for_new_trade, in percent
max_allocation_percent == 10
cash_for_new_trade_percent == 5
\* cash_at_risk_per_trade = 0.05 = CashAtRiskNum / CashAtRiskDen
CashAtRiskNum == 5
CashAtRiskDen == 100
StopMultiple == 2
TargetMultiple == 4

\* money unit: 1/Scale dollar, fine enough for two smoothing steps of the ATR
Scale == period * period
start_cash == start_cash_dollars * Scale

Days == 1..NumDays
PriceTickers == {"AAA", "BBB", "CCC"}

(***************************************************************************)
(* Arithmetic helpers                                                      *)
(***************************************************************************)
Abs(x) == IF x < 0 THEN -x ELSE x
Max2(a, b) == IF a >= b THEN a ELSE b
Max3(a, b, c) == Max2(a, Max2(b, c))

\* Python round() of the non-negative rational n/d: nearest integer, ties to even
RoundHalfEven(n, d) ==
    LET q == n \div d
        r == n % d
    IN  IF r < d - r THEN q
        ELSE IF r > d - r THEN q + 1
        ELSE IF q % 2 = 0 THEN q ELSE q + 1

(***************************************************************************)
(* The price table                                                         *)
(***************************************************************************)
Bar(o, h, l, c) == [open |-> o * Scale, high |-> h * Scale,
                    low |-> l * Scale, close |-> c * Scale]

FlatBar == Bar(100, 101, 99, 100)
UpBar   == Bar(105, 109, 104, 108)
DownBar == Bar(95, 97, 89, 90)
DipBar  == Bar(99, 100, 95, 99)
PopBar  == Bar(101, 105, 100, 101)
WideBar == Bar(100, 110, 90, 100)

\* a share of CCC costs a tenth of the starting cash
FlatBarC == Bar(10000, 10001, 9999, 10000)
UpBarC   == Bar(10000, 10002, 10000, 10001)

DayRow(a, b, c) ==
    [t \in PriceTickers |-> IF t = "AAA" THEN a ELSE IF t = "BBB" THEN b ELSE c]

\* the rows a calendar date can have in the table
MarketDays == { DayRow(FlatBar, FlatBar, FlatBarC), DayRow(UpBar, FlatBar, UpBarC),
                DayRow(DownBar, DownBar, FlatBarC), DayRow(DipBar, DownBar, FlatBarC),
                DayRow(PopBar, FlatBar, UpBarC), DayRow(WideBar, DownBar, FlatBarC) }

\* the bar of every row dated before the first news date
PreBar(ticker) == IF ticker = "CCC" THEN FlatBarC ELSE FlatBar

\* a calendar date without a row in the table (a non-trading day)
NoRow == [t \in {} |-> FlatBar]
\* a price table without any row (a file that holds the header only)
EmptyTable == [d \in {} |-> NoRow]

HasRow(df, d) == d \in DOMAIN df /\ DOMAIN df[d] # {}

\* the rows of the table dated before the simulation starts
PreHistory(ticker) == [i \in 1..PreRows |-> [date |-> i - PreRows] @@ PreBar(ticker)]

\* dates of the calendar that have a row in the table, ascending
RECURSIVE DatedRows(_, _, _)
DatedRows(df, ticker, d) ==
    IF d > NumDays THEN <<>>
    ELSE (IF ~HasRow(df, d) THEN <<>>
          ELSE <<[date |-> d] @@ df[d][ticker]>>) \o DatedRows(df, ticker, d + 1)

\* price_df.xs(ticker, level=1, axis=1) with lower-cased columns
TickerPrices(df, ticker) ==
    IF DOMAIN df = {} THEN <<>> ELSE PreHistory(ticker) \o DatedRows(df, ticker, 1)

(***************************************************************************)
(* calculate_atr                                                           *)
(***************************************************************************)
\* the range of the day alone, the previous close left out
TrueRangeOfDay(rows, i) == rows[i].high - rows[i].low

TrueRange(rows, i) ==
    IF i = 1 THEN rows[1].high - rows[1].low
    ELSE Max3(rows[i].high - rows[i].low,
              Abs(rows[i].high - rows[i - 1].close),
              Abs(rows[i].low - rows[i - 1].close))

\* df['tr'].ewm(alpha=1/period, adjust=False).mean(), first n rows:
\* v_1 = tr_1, v_t = (tr_t + (period - 1) * v_(t-1)) / period
AtrNumerator(rows, i, prev) == TrueRange(rows, i) + (period - 1) * prev

RECURSIVE AtrSeries(_, _)
AtrSeries(rows, n) ==
    IF n = 0 THEN <<>>
    ELSE IF n = 1 THEN <<TrueRange(rows, 1)>>
    ELSE LET before == AtrSeries(rows, n - 1)
         IN  Append(before, AtrNumerator(rows, n, before[n - 1]) \div period)

calculate_atr(rows) == AtrSeries(rows, Len(rows))

\* the smoothed values of the series are whole numbers of money units
AtrExact(rows) ==
    LET atr == calculate_atr(rows)
    IN  \A i \in 2..Len(rows) : AtrNumerator(rows, i, atr[i - 1]) % period = 0

\* ticker_prices.loc[date_str, 'atr']
RowIndex(rows, d) == CHOOSE i \in 1..Len(rows) : rows[i].date = d

(***************************************************************************)
(* decision_engine                                                         *)
(***************************************************************************)
SignalOf(sentiment) == IF sentiment = "positive" THEN "BUY" ELSE "SELL"

\* a confidence equal to the threshold turned away
KeepRowAbove(row, threshold) ==
    row.sentiment # "neutral" /\ row.confidence > threshold

KeepRow(row, threshold) ==
    row.sentiment # "neutral" /\ row.confidence >= threshold

RECURSIVE find_trade_signals(_, _)
find_trade_signals(analysed, threshold) ==
    IF analysed = <<>> THEN <<>>
    ELSE LET row == Head(analysed)
             rest == find_trade_signals(Tail(analysed), threshold)
         IN  IF KeepRow(row, threshold)
             THEN <<row @@ [signal |-> SignalOf(row.sentiment)]>> \o rest
             ELSE rest

\* sort_values(by='confidence', ascending=False) with the default kind
\* ('quicksort', not a stable algorithm): the rows in descending order of
\* confidence, rows of equal confidence in any order
SortedDescending(ranked) ==
    \A i, j \in 1..Len(ranked) : i < j => ranked[i].confidence >= ranked[j].confidence

Orderings(n) == { p \in [1..n -> 1..n] : \A i, j \in 1..n : p[i] = p[j] => i = j }

Reorder(signals, p) == [i \in 1..Len(signals) |-> signals[p[i]]]

\* a sort that gives no table back for a table without rows
rank_signals_of_rows(signals) ==
    { ranked \in { Reorder(signals, p) : p \in Orderings(Len(signals)) } :
        SortedDescending(ranked) /\ ranked # <<>> }

\* the tables rank_signals can return
rank_signals(signals) ==
    { ranked \in { Reorder(signals, p) : p \in Orderings(Len(signals)) } :
        SortedDescending(ranked) }

RECURSIVE SumClose(_, _, _)
SumClose(rows, from, to) ==
    IF from > to THEN 0 ELSE rows[from].close + SumClose(rows, from + 1, to)

\* sum of the last `window` closes; the mean is that sum over `window`
LastWindowSum(rows, window) == SumClose(rows, Len(rows) - window + 1, Len(rows))

\* .iloc[-1] of a frame without rows raises IndexError
check_ma_crossover_signal(rows) ==
    IF rows = <<>> THEN "IndexError"
    ELSE IF Len(rows) < slow_window \/ Len(rows) < fast_window THEN "HOLD"
    ELSE LET fast == LastWindowSum(rows, fast_window) * slow_window
             slow == LastWindowSum(rows, slow_window) * fast_window
         IN  IF fast > slow THEN "BUY"
             ELSE IF fast < slow THEN "SELL"
             ELSE "HOLD"

(***************************************************************************)
(* The price tables of the model                                           *)
(***************************************************************************)
DayRows == {NoRow} \cup MarketDays

\* the tables whose smoothed volatility is exact in the money unit
PriceTables ==
    {EmptyTable}
    \cup { df \in [Days -> DayRows] :
              \A t \in PriceTickers : AtrExact(TickerPrices(df, t)) }

(***************************************************************************)
(* The classified headlines of one day                                     *)
(***************************************************************************)
Headline(tickers, sentiment, confidence) ==
    [tickers |-> tickers, sentiment |-> sentiment, confidence |-> confidence]

\* the headlines a day can bring, in the order of their timestamps; the
\* price table has no column for DDD
Wire == << Headline(<<"DDD">>, "positive", 98),
           Headline(<<"CCC">>, "positive", 97),
           Headline(<<"BBB">>, "negative", 95),
           Headline(<<"AAA", "BBB">>, "positive", 96),
           Headline(<<"AAA">>, "negative", 95),
           Headline(<<"BBB">>, "neutral", 99) >>

RECURSIVE Pick(_, _, _)
Pick(wire, chosen, i) ==
    IF i > Len(wire) THEN <<>>
    ELSE (IF i \in chosen THEN <<wire[i]>> ELSE <<>>) \o Pick(wire, chosen, i + 1)

\* a day brings at most MaxNews of them; the first and the last day of the
\* calendar are news dates
NewsChoices(d) ==
    { Pick(Wire, chosen, 1) : chosen \in
        { c \in SUBSET (1..Len(Wire)) :
            /\ Cardinality(c) <= MaxNews
            /\ d \in {1, NumDays} => c # {} } }

(***************************************************************************)
(* portfolio['positions']: a dict in insertion order                       *)
(***************************************************************************)
Held(positions, ticker) == \E i \in 1..Len(positions) : positions[i].ticker = ticker

PositionOf(positions, ticker) ==
    positions[CHOOSE i \in 1..Len(positions) : positions[i].ticker = ticker]

DictKeys(positions) == [i \in 1..Len(positions) |-> positions[i].ticker]

DictDel(positions, ticker) ==
    LET Other(p) == p.ticker # ticker IN SelectSeq(positions, Other)

DictSet(positions, position) ==
    IF Held(positions, position.ticker)
    THEN [i \in 1..Len(positions) |->
            IF positions[i].ticker = position.ticker THEN position ELSE positions[i]]
    ELSE Append(positions, position)

LedgerRow(date, action, ticker, quantity, price) ==
    [date |-> date, action |-> action, ticker |-> ticker,
     quantity |-> quantity, price |-> price]

(***************************************************************************)
(* a) Manage open positions: the exit check of one open position           *)
(***************************************************************************)
\* a line written to the standard output: its wording, the ticker and the
\* date it names ("" and 0 when it names none)
Line(text, ticker, date) == [text |-> text, ticker |-> ticker, date |-> date]

\* lines 74, 80, 89, 95
ExitPrints(position, action) ==
    IF action = "NONE" THEN <<>>
    ELSE << Line((IF position.signal = "BUY" THEN "EXIT" ELSE "COVER")
                 \o (IF action = "EXIT_TP" THEN " (TAKE PROFIT)" ELSE " (STOP LOSS)"),
                 position.ticker, 0) >>

\* the stop-loss tested before the take-profit
ExitDecisionStopFirst(position, todays_high, todays_low) ==
    IF position.signal = "BUY"
    THEN IF todays_low <= position.stop_loss THEN "EXIT_SL"
         ELSE IF todays_high >= position.take_profit THEN "EXIT_TP"
         ELSE "NONE"
    ELSE IF position.signal = "SELL"
    THEN IF todays_low <= position.take_profit THEN "EXIT_TP"
         ELSE IF todays_high >= position.stop_loss THEN "EXIT_SL"
         ELSE "NONE"
    ELSE "NONE"

\* the comparisons of a long position used for a short one
ExitDecisionSellAsBuy(position, todays_high, todays_low) ==
    IF position.signal \in {"BUY", "SELL"}
    THEN IF todays_high >= position.take_profit THEN "EXIT_TP"
         ELSE IF todays_low <= position.stop_loss THEN "EXIT_SL"
         ELSE "NONE"
    ELSE "NONE"

ExitDecision(position, todays_high, todays_low) ==
    IF position.signal = "BUY"
    THEN IF todays_high >= position.take_profit THEN "EXIT_TP"
         ELSE IF todays_low <= position.stop_loss THEN "EXIT_SL"
         ELSE "NONE"
    ELSE IF position.signal = "SELL"
    THEN IF todays_low <= position.take_profit THEN "EXIT_TP"
         ELSE IF todays_high >= position.stop_loss THEN "EXIT_SL"
         ELSE "NONE"
    ELSE "NONE"

ExitPrice(position, action) ==
    IF action = "EXIT_TP" THEN position.take_profit ELSE position.stop_loss

\* half of the position sold at the exit, the other half kept open
ClosePositionHalf(pf, position, exit_price) ==
    [cash |-> pf.cash + (position.quantity \div 2) * exit_price,
     positions |-> DictSet(pf.positions,
                      [position EXCEPT !.quantity = @ - position.quantity \div 2])]

\* the exit credited at the entry price
ClosePositionAtEntry(pf, position, exit_price) ==
    [cash |-> pf.cash + position.quantity * position.entry_price,
     positions |-> DictDel(pf.positions, position.ticker)]

\* the gain of the exit credited, not its proceeds
ClosePositionCreditsGain(pf, position, exit_price) ==
    [cash |-> pf.cash + position.quantity * (exit_price - position.entry_price),
     positions |-> DictDel(pf.positions, position.ticker)]

\* the exit credited and the position left in the book
ClosePositionKeepsOpen(pf, position, exit_price) ==
    [cash |-> pf.cash + position.quantity * exit_price,
     positions |-> pf.positions]

ClosePosition(pf, position, exit_price) ==
    [cash |-> pf.cash + position.quantity * exit_price,
     positions |-> DictDel(pf.positions, position.ticker)]

\* the missing row handled around the loop, not inside it: the exit checks
\* of the positions that follow are given up for the day
ManageOpenPositionGivesUp ==
    /\ pc = "exits"
    /\ exit_keys # <<>>
    /\ LET ticker == Head(exit_keys)
           position == PositionOf(portfolio.positions, ticker)
       IN  IF ~HasRow(price_df, current_date)
           THEN /\ exit_keys' = <<>>
                /\ printed' = <<>>
                /\ UNCHANGED <<portfolio, trade_log>>
           ELSE LET bar == price_df[current_date][ticker]
                    action == ExitDecision(position, bar.high, bar.low)
                    exit_price == ExitPrice(position, action)
                IN  /\ exit_keys' = Tail(exit_keys)
                    /\ printed' = ExitPrints(position, action)
                    /\ IF action = "NONE"
                       THEN UNCHANGED <<portfolio, trade_log>>
                       ELSE /\ portfolio' = ClosePosition(portfolio, position, exit_price)
                            /\ trade_log' = Append(trade_log,
                                   LedgerRow(current_date, action, ticker,
                                             position.quantity, exit_price))
    /\ UNCHANGED <<price_df, portfolio_value_log, current_date, todays_news,
                   ranked_signals, pc, call, live_vars>>

ManageOpenPosition ==
    /\ pc = "exits"
    /\ exit_keys # <<>>
    /\ LET ticker == Head(exit_keys)
           position == PositionOf(portfolio.positions, ticker)
       IN  IF ~HasRow(price_df, current_date)
           THEN /\ printed' = <<>>            \* except KeyError: pass
                /\ UNCHANGED <<portfolio, trade_log>>
           ELSE LET bar == price_df[current_date][ticker]
                    action == ExitDecision(position, bar.high, bar.low)
                    exit_price == ExitPrice(position, action)
                IN  /\ printed' = ExitPrints(position, action)
                    /\ IF action = "NONE"
                       THEN UNCHANGED <<portfolio, trade_log>>
                       ELSE /\ portfolio' = ClosePosition(portfolio, position, exit_price)
                            /\ trade_log' = Append(trade_log,
                                   LedgerRow(current_date, action, ticker,
                                             position.quantity, exit_price))
    /\ exit_keys' = Tail(exit_keys)
    /\ UNCHANGED <<price_df, portfolio_value_log, current_date, todays_news,
                   ranked_signals, pc, call, live_vars>>

(***************************************************************************)
(* b) Check for new trade signals: the entry step of the day               *)
(***************************************************************************)
\* the whole cash committed to one trade, the fraction forgotten
PositionSizeAllIn(cash, entry_price) == RoundHalfEven(cash, entry_price)

\* the share count truncated, not rounded
PositionSizeFloor(cash, entry_price) ==
    (cash * CashAtRiskNum) \div (CashAtRiskDen * entry_price)

\* the share count rounded up
PositionSizeCeiling(cash, entry_price) ==
    (cash * CashAtRiskNum + CashAtRiskDen * entry_price - 1)
        \div (CashAtRiskDen * entry_price)

PositionSize(cash, entry_price) ==
    RoundHalfEven(cash * CashAtRiskNum, CashAtRiskDen * entry_price)

\* the stop of a short position put below the entry
StopLossBelow(signal, entry_price, atr) == entry_price - atr * StopMultiple

StopLoss(signal, entry_price, atr) ==
    IF signal = "BUY" THEN entry_price - atr * StopMultiple
    ELSE entry_price + atr * StopMultiple

TakeProfit(signal, entry_price, atr) ==
    IF signal = "BUY" THEN entry_price + atr * TargetMultiple
    ELSE entry_price - atr * TargetMultiple

NewPosition(ticker, quantity, entry_price, date, signal, atr) ==
    [ticker |-> ticker, quantity |-> quantity, entry_price |-> entry_price,
     entry_date |-> date, signal |-> signal,
     stop_loss |-> StopLoss(signal, entry_price, atr),
     take_profit |-> TakeProfit(signal, entry_price, atr)]

Book(pf, log) == [portfolio |-> pf, trade_log |-> log]

\* the cash set aside for the trade deducted, not the cost of the shares
OpenPositionBudget(pf, log, position) ==
    Book([cash |-> pf.cash - (pf.cash * CashAtRiskNum) \div CashAtRiskDen,
          positions |-> DictSet(pf.positions, position)],
         Append(log, LedgerRow(position.entry_date, "ENTER", position.ticker,
                               position.quantity, position.entry_price)))

\* the row of the entry put at the head of the ledger
OpenPositionOnTop(pf, log, position) ==
    Book([cash |-> pf.cash - position.quantity * position.entry_price,
          positions |-> DictSet(pf.positions, position)],
         <<LedgerRow(position.entry_date, "ENTER", position.ticker,
                     position.quantity, position.entry_price)>> \o log)

OpenPosition(pf, log, position) ==
    Book([cash |-> pf.cash - position.quantity * position.entry_price,
          positions |-> DictSet(pf.positions, position)],
         Append(log, LedgerRow(position.entry_date, "ENTER", position.ticker,
                               position.quantity, position.entry_price)))

\* a technical HOLD taken as no objection
ConfirmedUnlessOpposed(sentiment_signal, technical_signal) ==
    sentiment_signal = technical_signal \/ technical_signal = "HOLD"

Confirmed(sentiment_signal, technical_signal) == sentiment_signal = technical_signal

\* the check that the ticker is not held, dropped
MayEnterHeld(positions, ticker) == TRUE

MayEnter(positions, ticker) == ~Held(positions, ticker)

\* on a date without a row the entry is made at the latest close of the
\* ticker, with the latest volatility
TryEntryAtLatestClose(pf, log, df, d, ticker, sentiment_signal) ==
    IF ticker \notin PriceTickers THEN Book(pf, log)
    ELSE LET ticker_prices == TickerPrices(df, ticker)
             technical_signal == check_ma_crossover_signal(ticker_prices)
         IN  IF technical_signal = "IndexError" THEN Book(pf, log)
             ELSE IF ~Confirmed(sentiment_signal, technical_signal) THEN Book(pf, log)
             ELSE LET at == IF HasRow(df, d) THEN RowIndex(ticker_prices, d)
                            ELSE Len(ticker_prices)
                      entry_price == IF HasRow(df, d) THEN df[d][ticker].open
                                     ELSE ticker_prices[at].close
                      atr == calculate_atr(ticker_prices)[at]
                      quantity == PositionSize(pf.cash, entry_price)
                  IN  IF quantity > 0
                      THEN OpenPosition(pf, log,
                              NewPosition(ticker, quantity, entry_price, d,
                                          sentiment_signal, atr))
                      ELSE Book(pf, log)

\* the body of the try block of the entry step (KeyError: no such ticker or date)
TryEntry(pf, log, df, d, ticker, sentiment_signal) ==
    IF ticker \notin PriceTickers THEN Book(pf, log)
    ELSE LET ticker_prices == TickerPrices(df, ticker)
             technical_signal == check_ma_crossover_signal(ticker_prices)
         IN  IF technical_signal = "IndexError" THEN Book(pf, log)
             ELSE IF ~Confirmed(sentiment_signal, technical_signal) THEN Book(pf, log)
             ELSE IF ~HasRow(df, d) THEN Book(pf, log)
             ELSE LET entry_price == df[d][ticker].open
                      atr == calculate_atr(ticker_prices)[RowIndex(ticker_prices, d)]
                      quantity == PositionSize(pf.cash, entry_price)
                  IN  IF quantity > 0
                      THEN OpenPosition(pf, log,
                              NewPosition(ticker, quantity, entry_price, d,
                                          sentiment_signal, atr))
                      ELSE Book(pf, log)

\* the high and the low of the entry day tested against the new bracket
EntryStepThenExitCheck(pf, log, df, d, ranked) ==
    IF ranked = <<>> THEN Book(pf, log)
    ELSE LET ticker == ranked[1].tickers[1]
             entered == IF MayEnter(pf.positions, ticker)
                        THEN TryEntry(pf, log, df, d, ticker, ranked[1].signal)
                        ELSE Book(pf, log)
         IN  IF entered.trade_log = log THEN entered
             ELSE LET position == PositionOf(entered.portfolio.positions, ticker)
                      action == ExitDecision(position, df[d][ticker].high,
                                             df[d][ticker].low)
                      exit_price == ExitPrice(position, action)
                  IN  IF action = "NONE" THEN entered
                      ELSE Book(ClosePosition(entered.portfolio, position, exit_price),
                                Append(entered.trade_log,
                                       LedgerRow(d, action, ticker,
                                                 position.quantity, exit_price)))

\* every ranked signal of the day tried in turn, not the top one alone
RECURSIVE EntryStepEverySignal(_, _, _, _, _)
EntryStepEverySignal(pf, log, df, d, ranked) ==
    IF ranked = <<>> THEN Book(pf, log)
    ELSE LET ticker == ranked[1].tickers[1]
             first == IF MayEnter(pf.positions, ticker)
                      THEN TryEntry(pf, log, df, d, ticker, ranked[1].signal)
                      ELSE Book(pf, log)
         IN  EntryStepEverySignal(first.portfolio, first.trade_log, df, d, Tail(ranked))

\* the best signal of a ticker that is not held taken when the top one is held
EntryStepFirstFree(pf, log, df, d, ranked) ==
    LET Free(row) == MayEnter(pf.positions, row.tickers[1])
        free == SelectSeq(ranked, Free)
    IN  IF free = <<>> THEN Book(pf, log)
        ELSE TryEntry(pf, log, df, d, free[1].tickers[1], free[1].signal)

\* the ranked tables of the day: none when there is no news or no signal
RankedOfDay(news) ==
    LET signals == find_trade_signals(news, confidence_threshold)
    IN  IF news = <<>> \/ signals = <<>> THEN {<<>>} ELSE rank_signals(signals)

EntryStep(pf, log, df, d, ranked) ==
    IF ranked = <<>> THEN Book(pf, log)
    ELSE LET top_signal == ranked[1]
             ticker == top_signal.tickers[1]
         IN  IF MayEnter(pf.positions, ticker)
             THEN TryEntry(pf, log, df, d, ticker, top_signal.signal)
             ELSE Book(pf, log)

\* what the entry step prints (lines 105, 116, 122, 125, 141, 144, 146)
TryEntryPrints(pf, df, d, ticker, sentiment_signal) ==
    LET could_not == <<Line("Could not find sufficient price data", ticker, d)>>
    IN  IF ticker \notin PriceTickers THEN could_not
        ELSE LET ticker_prices == TickerPrices(df, ticker)
                 technical_signal == check_ma_crossover_signal(ticker_prices)
             IN  IF technical_signal = "IndexError" THEN could_not
                 ELSE <<Line("Technical signal is", "", 0)>> \o
                      ( IF ~Confirmed(sentiment_signal, technical_signal)
                        THEN <<Line("SKIPPING TRADE", "", 0)>>
                        ELSE <<Line("CONFIRMED", "", 0)>> \o
                             ( IF ~HasRow(df, d) THEN could_not
                               ELSE IF PositionSize(pf.cash, df[d][ticker].open) > 0
                               THEN <<Line("EXECUTED", ticker, 0)>>
                               ELSE <<>> ) )

EntryPrints(pf, df, d, news, ranked) ==
    IF news = <<>> THEN <<>>
    ELSE <<Line("Simulating day", "", d)>> \o
         ( IF ranked = <<>> THEN <<>>
           ELSE LET top_signal == ranked[1]
                    ticker == top_signal.tickers[1]
                IN  IF MayEnter(pf.positions, ticker)
                    THEN <<Line("Sentiment signal found", ticker, 0)>> \o
                         TryEntryPrints(pf, df, d, ticker, top_signal.signal)
                    ELSE <<>> )

CheckForNewSignals ==
    /\ pc = "exits"
    /\ exit_keys = <<>>
    /\ \E news \in NewsChoices(current_date) : \E ranked \in RankedOfDay(news) :
          \E after \in {EntryStep(portfolio, trade_log, price_df, current_date, ranked)} :
              /\ todays_news' = news
              /\ ranked_signals' = ranked
              /\ printed' = EntryPrints(portfolio, price_df, current_date, news, ranked)
              /\ portfolio' = after.portfolio
              /\ trade_log' = after.trade_log
    /\ pc' = "valuation"
    /\ UNCHANGED <<price_df, portfolio_value_log, current_date, exit_keys, call, live_vars>>

(***************************************************************************)
(* c) Record the daily portfolio value                                     *)
(***************************************************************************)
\* a position without a quote counted as worth nothing
MarkPriceOrNothing(pos, df, d) == IF HasRow(df, d) THEN df[d][pos.ticker].close ELSE 0

MarkPrice(pos, df, d) == IF HasRow(df, d) THEN df[d][pos.ticker].close ELSE pos.entry_price

RECURSIVE PositionsValue(_, _, _)
PositionsValue(positions, df, d) ==
    IF positions = <<>> THEN 0
    ELSE Head(positions).quantity * MarkPrice(Head(positions), df, d)
         + PositionsValue(Tail(positions), df, d)

\* the positions valued as they stood before the entry step of the day
TotalValueBeforeEntry(pf, df, d) ==
    LET Earlier(pos) == pos.entry_date < d
    IN  pf.cash + PositionsValue(SelectSeq(pf.positions, Earlier), df, d)

TotalValue(pf, df, d) == pf.cash + PositionsValue(pf.positions, df, d)

\* the valuation marks every position to the price it was valued at
RecordDailyValueMarksToMarket ==
    /\ pc = "valuation"
    /\ portfolio_value_log' = Append(portfolio_value_log,
            [date |-> current_date,
             total_value |-> TotalValue(portfolio, price_df, current_date)])
    /\ portfolio' = [portfolio EXCEPT !.positions =
            [i \in 1..Len(portfolio.positions) |->
                [portfolio.positions[i] EXCEPT
                    !.entry_price = MarkPrice(portfolio.positions[i], price_df,
                                              current_date)]]]
    /\ IF current_date < NumDays
       THEN /\ current_date' = current_date + 1
            /\ exit_keys' = DictKeys(portfolio.positions)
            /\ pc' = "exits"
       ELSE /\ pc' = "finished"
            /\ UNCHANGED <<current_date, exit_keys>>
    /\ todays_news' = <<>>
    /\ ranked_signals' = <<>>
    /\ printed' = <<>>
    /\ UNCHANGED <<price_df, trade_log, call, live_vars>>

\* no sample on a day without a price row
RecordDailyValueOnMarketDays ==
    /\ pc = "valuation"
    /\ portfolio_value_log' =
          IF HasRow(price_df, current_date)
          THEN Append(portfolio_value_log,
                  [date |-> current_date,
                   total_value |-> TotalValue(portfolio, price_df, current_date)])
          ELSE portfolio_value_log
    /\ IF current_date < NumDays
       THEN /\ current_date' = current_date + 1
            /\ exit_keys' = DictKeys(portfolio.positions)
            /\ pc' = "exits"
       ELSE /\ pc' = "finished"
            /\ UNCHANGED <<current_date, exit_keys>>
    /\ todays_news' = <<>>
    /\ ranked_signals' = <<>>
    /\ printed' = <<>>
    /\ UNCHANGED <<price_df, portfolio, trade_log, call, live_vars>>

RecordDailyValue ==
    /\ pc = "valuation"
    /\ portfolio_value_log' = Append(portfolio_value_log,
            [date |-> current_date,
             total_value |-> TotalValue(portfolio, price_df, current_date)])
    /\ IF current_date < NumDays
       THEN /\ current_date' = current_date + 1
            /\ exit_keys' = DictKeys(portfolio.positions)
            /\ pc' = "exits"
       ELSE /\ pc' = "finished"
            /\ UNCHANGED <<current_date, exit_keys>>
    \* neither is read again before lines 103 and 110 assign them anew
    /\ todays_news' = <<>>
    /\ ranked_signals' = <<>>
    /\ printed' = <<>>
    /\ UNCHANGED <<price_df, portfolio, trade_log, call, live_vars>>

(***************************************************************************)
(* The backtest                                                            *)
(***************************************************************************)
\* no function of the decision engine is called outside the backtest
NoCall == [fn |-> "none"]
\* run_live_pipeline has not run
NoCycle == [returned_at |-> "none", all_news_df |-> <<>>, new_articles |-> <<>>,
            analysed_df |-> <<>>, executed |-> FALSE,
            current_position_value |-> 0, portfolio_value |-> 0]

Init ==
    /\ price_df \in PriceTables
    /\ portfolio = [cash |-> start_cash, positions |-> <<>>]
    /\ trade_log = <<>>
    /\ portfolio_value_log = <<>>
    /\ current_date = 1
    /\ exit_keys = <<>>
    /\ todays_news = <<>>
    /\ ranked_signals = <<>>
    /\ printed = <<>>
    /\ pc = "exits"
    /\ call = NoCall
    /\ seen_news_links = {}
    /\ submitted_orders = <<>>
    /\ cycles = 0
    /\ pipeline = NoCycle

Next == ManageOpenPosition \/ CheckForNewSignals \/ RecordDailyValue

Spec == Init /\ [][Next]_vars

(***************************************************************************)
(* The functions of the decision engine, each called on its own            *)
(***************************************************************************)
Sentiments == {"positive", "negative", "neutral"}

\* confidences, in percent, below, at and above the two thresholds in use
Confidences == {live_confidence_threshold - 1, live_confidence_threshold,
                confidence_threshold, confidence_threshold + 5}

Thresholds == {confidence_threshold, live_confidence_threshold}

AnalysedRows ==
    { Headline(<<t>>, s, c) : t \in {"AAA", "BBB"}, s \in Sentiments, c \in Confidences }

AnalysedTables == UNION { [1..n -> AnalysedRows] : n \in 0..MaxRows }

SignalTables == { find_trade_signals(t, th) : t \in AnalysedTables, th \in Thresholds }

Closes == {99, 100, 101}

\* a close series of n rows that moves from a to b after row k
StepSeries(n, k, a, b) ==
    [i \in 1..n |-> IF i <= k THEN Bar(a, a, a, a) ELSE Bar(b, b, b, b)]

PriceSeries ==
    { StepSeries(x[1], x[2], x[3], x[4]) :
        x \in { y \in (0..MaxSeries) \X (0..MaxSeries) \X Closes \X Closes :
                    y[2] <= y[1] } }

FindCall(analysed_df, threshold) ==
    [fn |-> "find_trade_signals", analysed_df |-> analysed_df,
     confidence_threshold |-> threshold, done |-> FALSE, returned |-> <<>>]

RankCall(signals_df) ==
    [fn |-> "rank_signals", signals_df |-> signals_df,
     done |-> FALSE, returned |-> <<>>]

CrossoverCall(price_history) ==
    [fn |-> "check_ma_crossover_signal", price_history |-> price_history,
     done |-> FALSE, returned |-> ""]

Calls ==
    { FindCall(t, th) : t \in AnalysedTables, th \in Thresholds }
    \cup { RankCall(t) : t \in SignalTables }
    \cup { CrossoverCall(h) : h \in PriceSeries }

\* lines 13-22: the rows are selected into a copy, and the column 'signal'
\* is added to that copy
FindTradeSignalsCall ==
    /\ call.fn = "find_trade_signals" /\ ~call.done
    /\ call' = [call EXCEPT
                  !.returned = find_trade_signals(call.analysed_df,
                                                  call.confidence_threshold),
                  !.done = TRUE]
    /\ UNCHANGED <<price_df, portfolio, trade_log, portfolio_value_log,
                   current_date, exit_keys, todays_news, ranked_signals, printed, pc,
                   live_vars>>

\* lines 35-38: sort_values returns a new table, whose index is reset in place
RankSignalsCall ==
    /\ call.fn = "rank_signals" /\ ~call.done
    /\ \E ranked \in rank_signals(call.signals_df) :
          call' = [call EXCEPT !.returned = ranked, !.done = TRUE]
    /\ UNCHANGED <<price_df, portfolio, trade_log, portfolio_value_log,
                   current_date, exit_keys, todays_news, ranked_signals, printed, pc,
                   live_vars>>

\* lines 48-69: the averages are columns of a copy of the price history
CheckMaCrossoverCall ==
    /\ call.fn = "check_ma_crossover_signal" /\ ~call.done
    /\ call' = [call EXCEPT
                  !.returned = check_ma_crossover_signal(call.price_history),
                  !.done = TRUE]
    /\ UNCHANGED <<price_df, portfolio, trade_log, portfolio_value_log,
                   current_date, exit_keys, todays_news, ranked_signals, printed, pc,
                   live_vars>>

EngineInit ==
    /\ price_df = [d \in Days |-> NoRow]
    /\ portfolio = [cash |-> start_cash, positions |-> <<>>]
    /\ trade_log = <<>>
    /\ portfolio_value_log = <<>>
    /\ current_date = 1
    /\ exit_keys = <<>>
    /\ todays_news = <<>>
    /\ ranked_signals = <<>>
    /\ printed = <<>>
    /\ pc = "engine"
    /\ call \in Calls
    /\ seen_news_links = {}
    /\ submitted_orders = <<>>
    /\ cycles = 0
    /\ pipeline = NoCycle

EngineNext == FindTradeSignalsCall \/ RankSignalsCall \/ CheckMaCrossoverCall

EngineSpec == EngineInit /\ [][EngineNext]_vars

(***************************************************************************)
(* What the ledger says                                                    *)
(***************************************************************************)
ExitActions == {"EXIT_TP", "EXIT_SL"}

IsEnter(row) == row.action = "ENTER"
IsExit(row) == row.action \in ExitActions

LastRow(log) == log[Len(log)]

RECURSIVE SumAmounts(_, _)
SumAmounts(log, rows) ==
    IF rows = {} THEN 0
    ELSE LET k == CHOOSE x \in rows : TRUE
         IN  log[k].quantity * log[k].price + SumAmounts(log, rows \ {k})

\* the integer nearest to fraction * cash / price, the even one of two
IsNearestShareCount(q, cash, price) ==
    LET n == cash * CashAtRiskNum
        unit == CashAtRiskDen * price
        off == Abs(n - q * unit)
    IN  /\ off <= unit - off
        /\ (off = unit - off => q % 2 = 0)

\* the ENTER row of the position of `ticker` that is open after row k
EntryRowOf(log, k, ticker) ==
    CHOOSE i \in 1..k :
        /\ IsEnter(log[i]) /\ log[i].ticker = ticker
        /\ \A j \in (i + 1)..k : log[j].ticker = ticker => ~IsEnter(log[j])

(***************************************************************************)
(* C1: cash is never negative: not after an exit, not after the entry      *)
(* step, not after the day; the cost of a new position never exceeds the   *)
(* cash available when it is opened.                                       *)
(***************************************************************************)
C1_CashNeverNegative == portfolio.cash >= 0

\* a day on which a position was closed and another one opened
C1_Witness ==
    /\ pc = "valuation"
    /\ \E i, j \in 1..Len(trade_log) :
          /\ i < j
          /\ IsExit(trade_log[i]) /\ trade_log[i].date = current_date
          /\ IsEnter(trade_log[j]) /\ trade_log[j].date = current_date
    /\ portfolio.cash < start_cash

(***************************************************************************)
(* C2: a ticker has at most one open position, and between two ENTER rows  *)
(* of a ticker the ledger holds an exit row of that ticker.                *)
(***************************************************************************)
C2_OnePositionPerTicker ==
    /\ \A i, j \in 1..Len(portfolio.positions) :
          portfolio.positions[i].ticker = portfolio.positions[j].ticker => i = j
    /\ \A i, j \in 1..Len(trade_log) :
          ( /\ i < j
            /\ IsEnter(trade_log[i]) /\ IsEnter(trade_log[j])
            /\ trade_log[i].ticker = trade_log[j].ticker )
          => \E k \in (i + 1)..(j - 1) :
                IsExit(trade_log[k]) /\ trade_log[k].ticker = trade_log[i].ticker

\* a ticker entered, exited and entered again
C2_Witness ==
    \E i, j, k \in 1..Len(trade_log) :
        /\ i < k /\ k < j
        /\ IsEnter(trade_log[i]) /\ IsExit(trade_log[k]) /\ IsEnter(trade_log[j])
        /\ trade_log[i].ticker = trade_log[j].ticker
        /\ trade_log[k].ticker = trade_log[i].ticker
        /\ Held(portfolio.positions, trade_log[i].ticker)

(***************************************************************************)
(* C3: the steps of a day run in the order exits, entry, valuation, and a  *)
(* day is finished before the next begins: every entry is sized from the   *)
(* cash that holds the proceeds of all exits of its day, and the value     *)
(* sample of a day counts the position opened on that day.                 *)
(***************************************************************************)
EntersBefore(log, i) == { k \in 1..(i - 1) : IsEnter(log[k]) }
EntersUpTo(log, d) == { k \in 1..Len(log) : IsEnter(log[k]) /\ log[k].date <= d }
ExitsUpTo(log, d) == { k \in 1..Len(log) : IsExit(log[k]) /\ log[k].date <= d }

\* ENTER rows dated d or earlier with no exit of their ticker after them by day d
OpenAtEndOf(log, d) ==
    { i \in EntersUpTo(log, d) :
        \A k \in ExitsUpTo(log, d) : log[k].ticker = log[i].ticker => k < i }

RECURSIVE MarkedValue(_, _, _, _)
MarkedValue(log, rows, df, d) ==
    IF rows = {} THEN 0
    ELSE LET i == CHOOSE x \in rows : TRUE
         IN  log[i].quantity *
                (IF HasRow(df, d) THEN df[d][log[i].ticker].close ELSE log[i].price)
             + MarkedValue(log, rows \ {i}, df, d)

C3_DayStepsInOrder ==
    /\ Len(portfolio_value_log) =
          (IF pc \in {"exits", "valuation"} THEN current_date - 1 ELSE NumDays)
    /\ \A i \in 1..Len(trade_log) : trade_log[i].date <= current_date
    /\ \A i \in 1..Len(trade_log) :
          IsEnter(trade_log[i]) =>
            IsNearestShareCount(trade_log[i].quantity,
                start_cash
                  - SumAmounts(trade_log, EntersBefore(trade_log, i))
                  + SumAmounts(trade_log, ExitsUpTo(trade_log, trade_log[i].date)),
                trade_log[i].price)
    /\ \A d \in 1..Len(portfolio_value_log) :
          /\ portfolio_value_log[d].date = d
          /\ portfolio_value_log[d].total_value =
                start_cash
                  - SumAmounts(trade_log, EntersUpTo(trade_log, d))
                  + SumAmounts(trade_log, ExitsUpTo(trade_log, d))
                  + MarkedValue(trade_log, OpenAtEndOf(trade_log, d), price_df, d)

\* a day with an exit, then an entry, then its value sample
C3_Witness ==
    \E d \in 1..Len(portfolio_value_log) :
        \E i, j \in 1..Len(trade_log) :
            /\ i < j
            /\ IsExit(trade_log[i]) /\ trade_log[i].date = d
            /\ IsEnter(trade_log[j]) /\ trade_log[j].date = d
            /\ j \in OpenAtEndOf(trade_log, d)

(***************************************************************************)
(* Steps of the day                                                        *)
(***************************************************************************)
\* the exit check of the position of Head(exit_keys) is about to run
AtExitCheck == pc = "exits" /\ exit_keys # <<>>

\* a step of the entry phase
EntryPhaseStep == pc = "exits" /\ pc' = "valuation"

HasSignals(news) == find_trade_signals(news, confidence_threshold) # <<>>
TopSignal(ranked) == ranked[1]
Technical(df, ticker) == check_ma_crossover_signal(TickerPrices(df, ticker))

Without(positions, ticker) ==
    LET Other(p) == p.ticker # ticker IN SelectSeq(positions, Other)

ExitStepWrites(position, action, price) ==
    /\ trade_log' = Append(trade_log,
          LedgerRow(current_date, action, position.ticker, position.quantity, price))
    /\ ~Held(portfolio'.positions, position.ticker)

ExitStepKeeps(position) ==
    /\ trade_log' = trade_log
    /\ portfolio' = portfolio
    /\ PositionOf(portfolio'.positions, position.ticker) = position

(***************************************************************************)
(* C4: exit check of an open BUY position on a day with prices: high at or *)
(* above the take-profit exits at the take-profit (EXIT_TP); otherwise low *)
(* at or below the stop-loss exits at the stop-loss (EXIT_SL); otherwise   *)
(* the position stays.  Both on one day: EXIT_TP, one row only.            *)
(***************************************************************************)
C4_BuyExitRule ==
    [][ ( /\ AtExitCheck
          /\ HasRow(price_df, current_date)
          /\ PositionOf(portfolio.positions, Head(exit_keys)).signal = "BUY" )
        => LET position == PositionOf(portfolio.positions, Head(exit_keys))
               bar == price_df[current_date][position.ticker]
           IN  IF bar.high >= position.take_profit
               THEN ExitStepWrites(position, "EXIT_TP", position.take_profit)
               ELSE IF bar.low <= position.stop_loss
               THEN ExitStepWrites(position, "EXIT_SL", position.stop_loss)
               ELSE ExitStepKeeps(position) ]_vars

\* a long position closed at its target on a day that also breached its stop
\* (the stop is the entry less half the distance to the target)
C4_Witness ==
    /\ pc = "exits"
    /\ trade_log # <<>>
    /\ LET row == LastRow(trade_log)
       IN  /\ row.action = "EXIT_TP"
           /\ row.date = current_date
           /\ ~Held(portfolio.positions, row.ticker)
           /\ LET entry == trade_log[EntryRowOf(trade_log, Len(trade_log), row.ticker)]
                   bar == price_df[current_date][row.ticker]
               IN  /\ row.price > entry.price
                   /\ bar.high >= row.price
                   /\ 2 * bar.low <= 3 * entry.price - row.price

(***************************************************************************)
(* C5: exit check of an open SELL position on a day with prices: low at or *)
(* below the take-profit exits at the take-profit (EXIT_TP); otherwise     *)
(* high at or above the stop-loss exits at the stop-loss (EXIT_SL);        *)
(* otherwise the position stays.  Both on one day: EXIT_TP.                *)
(***************************************************************************)
C5_SellExitRule ==
    [][ ( /\ AtExitCheck
          /\ HasRow(price_df, current_date)
          /\ PositionOf(portfolio.positions, Head(exit_keys)).signal = "SELL" )
        => LET position == PositionOf(portfolio.positions, Head(exit_keys))
               bar == price_df[current_date][position.ticker]
           IN  IF bar.low <= position.take_profit
               THEN ExitStepWrites(position, "EXIT_TP", position.take_profit)
               ELSE IF bar.high >= position.stop_loss
               THEN ExitStepWrites(position, "EXIT_SL", position.stop_loss)
               ELSE ExitStepKeeps(position) ]_vars

\* a short position closed at its target on a day that also breached its stop
C5_Witness ==
    /\ pc = "exits"
    /\ trade_log # <<>>
    /\ LET row == LastRow(trade_log)
       IN  /\ row.action = "EXIT_TP"
           /\ row.date = current_date
           /\ ~Held(portfolio.positions, row.ticker)
           /\ LET entry == trade_log[EntryRowOf(trade_log, Len(trade_log), row.ticker)]
                   bar == price_df[current_date][row.ticker]
               IN  /\ row.price < entry.price
                   /\ bar.low <= row.price
                   /\ 2 * bar.high >= 3 * entry.price - row.price

(***************************************************************************)
(* C6: an exit adds quantity x exit price to the cash, removes the         *)
(* position and appends exactly one row (date, EXIT_TP or EXIT_SL, ticker, *)
(* quantity, exit price).                                                  *)
(***************************************************************************)
C6_ExitEffect ==
    [][ ( /\ Len(trade_log') > Len(trade_log)
          /\ IsExit(LastRow(trade_log')) )
        => LET row == LastRow(trade_log')
           IN  /\ trade_log' = Append(trade_log, row)
               /\ row.date = current_date
               /\ Held(portfolio.positions, row.ticker)
               /\ LET position == PositionOf(portfolio.positions, row.ticker)
                  IN  /\ row.quantity = position.quantity
                      /\ row.price = (IF row.action = "EXIT_TP"
                                      THEN position.take_profit
                                      ELSE position.stop_loss)
                      /\ portfolio'.cash = portfolio.cash + position.quantity * row.price
                      /\ portfolio'.positions = Without(portfolio.positions, row.ticker)
      ]_vars

\* 50 shares bought at 100 with cash 95000 left, sold at the target 108 on a
\* day whose high is 109: the cash is 100400
C6_Witness ==
    /\ trade_log = << LedgerRow(1, "ENTER", "AAA", 50, 100 * Scale),
                      LedgerRow(2, "EXIT_TP", "AAA", 50, 108 * Scale) >>
    /\ price_df[2]["AAA"].high = 109 * Scale
    /\ portfolio = [cash |-> 100400 * Scale, positions |-> <<>>]

(***************************************************************************)
(* C7: the entry price is the Open of the day and the quantity is          *)
(* round(0.05 x cash / entry price); a quantity of 0 or less changes       *)
(* nothing; every ENTER row carries that positive quantity.                *)
(***************************************************************************)
C7_EntrySizing ==
    [][ EntryPhaseStep =>
        /\ trade_log' # trade_log =>
              LET row == LastRow(trade_log')
              IN  /\ trade_log' = Append(trade_log, row)
                  /\ IsEnter(row)
                  /\ HasRow(price_df, current_date)
                  /\ row.price = price_df[current_date][row.ticker].open
                  /\ row.quantity > 0
                  /\ IsNearestShareCount(row.quantity, portfolio.cash, row.price)
                  /\ portfolio'.cash = portfolio.cash - row.quantity * row.price
        /\ trade_log' = trade_log => portfolio' = portfolio
        /\ ( /\ HasSignals(todays_news')
             /\ TopSignal(ranked_signals').tickers[1] \in PriceTickers
             /\ ~Held(portfolio.positions, TopSignal(ranked_signals').tickers[1])
             /\ HasRow(price_df, current_date)
             /\ Technical(price_df, TopSignal(ranked_signals').tickers[1])
                  = TopSignal(ranked_signals').signal )
           => LET ticker == TopSignal(ranked_signals').tickers[1]
                  entry_price == price_df[current_date][ticker].open
              IN  IF IsNearestShareCount(0, portfolio.cash, entry_price)
                  THEN trade_log' = trade_log /\ portfolio' = portfolio
                  ELSE trade_log' # trade_log
      ]_vars

\* cash 100000 and entry price 100 gave 50 shares and cash 95000; the next
\* day a confirmed signal for a share of 10000 rounds to no share at all
C7_Witness ==
    /\ pc = "valuation"
    /\ current_date = 2
    /\ trade_log = << LedgerRow(1, "ENTER", "AAA", 50, 100 * Scale) >>
    /\ portfolio.cash = 95000 * Scale
    /\ HasSignals(todays_news)
    /\ TopSignal(ranked_signals).tickers[1] = "CCC"
    /\ HasRow(price_df, 2)
    /\ Technical(price_df, "CCC") = TopSignal(ranked_signals).signal

(***************************************************************************)
(* C8: the bracket of a position is fixed at entry: a BUY has its stop     *)
(* 2 x ATR below and its target 4 x ATR above the entry price, a SELL has  *)
(* its stop 2 x ATR above and its target 4 x ATR below, ATR being the      *)
(* volatility value of the entry date.                                     *)
(***************************************************************************)
AtrOn(df, ticker, d) ==
    LET rows == TickerPrices(df, ticker)
    IN  calculate_atr(rows)[RowIndex(rows, d)]

C8_BracketLevels ==
    \A i \in 1..Len(portfolio.positions) :
        LET position == portfolio.positions[i]
            atr == AtrOn(price_df, position.ticker, position.entry_date)
        IN  /\ position.signal \in {"BUY", "SELL"}
            /\ position.signal = "BUY" =>
                  /\ position.stop_loss = position.entry_price - 2 * atr
                  /\ position.take_profit = position.entry_price + 4 * atr
            /\ position.signal = "SELL" =>
                  /\ position.stop_loss = position.entry_price + 2 * atr
                  /\ position.take_profit = position.entry_price - 4 * atr

\* a short position next to the long one of entry 100 and ATR 2: stop 96, target 108
C8_Witness ==
    /\ \E i \in 1..Len(portfolio.positions) :
          /\ portfolio.positions[i].signal = "BUY"
          /\ portfolio.positions[i].entry_price = 100 * Scale
          /\ AtrOn(price_df, portfolio.positions[i].ticker,
                   portfolio.positions[i].entry_date) = 2 * Scale
          /\ portfolio.positions[i].stop_loss = 96 * Scale
          /\ portfolio.positions[i].take_profit = 108 * Scale
    /\ \E i \in 1..Len(portfolio.positions) : portfolio.positions[i].signal = "SELL"

(***************************************************************************)
(* C9: opening a position creates and destroys no value: the entry takes   *)
(* quantity x entry price from the cash and writes one ENTER row, so the   *)
(* cash plus the positions at their entry prices is what it was before.    *)
(***************************************************************************)
RECURSIVE CostOfPositions(_)
CostOfPositions(positions) ==
    IF positions = <<>> THEN 0
    ELSE Head(positions).quantity * Head(positions).entry_price
         + CostOfPositions(Tail(positions))

C9_EntryConservesValue ==
    [][ ( /\ Len(trade_log') > Len(trade_log)
          /\ IsEnter(LastRow(trade_log')) )
        => LET row == LastRow(trade_log')
           IN  /\ trade_log' = Append(trade_log, row)
               /\ portfolio'.cash + row.quantity * row.price = portfolio.cash
               /\ Held(portfolio'.positions, row.ticker)
               /\ PositionOf(portfolio'.positions, row.ticker).quantity = row.quantity
               /\ PositionOf(portfolio'.positions, row.ticker).entry_price = row.price
               /\ portfolio'.cash + CostOfPositions(portfolio'.positions)
                    = portfolio.cash + CostOfPositions(portfolio.positions)
      ]_vars

\* a short position just opened while a long one is held
C9_Witness ==
    /\ pc = "valuation"
    /\ trade_log # <<>>
    /\ IsEnter(LastRow(trade_log))
    /\ LastRow(trade_log).date = current_date
    /\ Held(portfolio.positions, LastRow(trade_log).ticker)
    /\ PositionOf(portfolio.positions, LastRow(trade_log).ticker).signal = "SELL"
    /\ \E i \in 1..Len(portfolio.positions) : portfolio.positions[i].signal = "BUY"
    /\ portfolio.cash + CostOfPositions(portfolio.positions) = start_cash

(***************************************************************************)
(* C10: hard veto: the entry step opens a position only when the technical *)
(* signal of the top candidate's ticker equals its sentiment signal; when  *)
(* they differ (a technical HOLD included) cash, positions and ledger are  *)
(* left as they were.                                                      *)
(***************************************************************************)
C10_HardVeto ==
    [][ EntryPhaseStep =>
        /\ trade_log' # trade_log =>
              /\ HasSignals(todays_news')
              /\ LastRow(trade_log').ticker = TopSignal(ranked_signals').tickers[1]
              /\ Technical(price_df, LastRow(trade_log').ticker)
                    = TopSignal(ranked_signals').signal
              /\ PositionOf(portfolio'.positions, LastRow(trade_log').ticker).signal
                    = TopSignal(ranked_signals').signal
        /\ ( /\ HasSignals(todays_news')
             /\ TopSignal(ranked_signals').tickers[1] \in PriceTickers
             /\ Technical(price_df, TopSignal(ranked_signals').tickers[1])
                  # TopSignal(ranked_signals').signal )
           => /\ trade_log' = trade_log
              /\ portfolio' = portfolio
      ]_vars

\* sentiment says BUY, technical says SELL: nothing entered, cash untouched
C10_Witness ==
    /\ pc = "valuation"
    /\ HasSignals(todays_news)
    /\ TopSignal(ranked_signals).signal = "BUY"
    /\ HasRow(price_df, current_date)
    /\ TopSignal(ranked_signals).tickers[1] \in DOMAIN price_df[current_date]
    /\ Technical(price_df, TopSignal(ranked_signals).tickers[1]) = "SELL"
    /\ trade_log = <<>>
    /\ portfolio = [cash |-> start_cash, positions |-> <<>>]

(***************************************************************************)
(* C11: the entry step looks at the top-ranked signal of the day only, and *)
(* only when its first ticker has no open position after the exit phase:   *)
(* an ENTER row is a row of that ticker, and when that ticker is held      *)
(* nothing is opened that day, whatever the lower-ranked signals name.     *)
(***************************************************************************)
C11_TopSignalOnly ==
    [][ EntryPhaseStep =>
        /\ trade_log' # trade_log =>
              /\ ranked_signals' # <<>>
              /\ trade_log' = Append(trade_log, LastRow(trade_log'))
              /\ IsEnter(LastRow(trade_log'))
              /\ LastRow(trade_log').ticker = TopSignal(ranked_signals').tickers[1]
              /\ ~Held(portfolio.positions, LastRow(trade_log').ticker)
        /\ ( /\ ranked_signals' # <<>>
             /\ Held(portfolio.positions, TopSignal(ranked_signals').tickers[1]) )
           => /\ trade_log' = trade_log
              /\ portfolio' = portfolio
      ]_vars

\* the top signal names a held ticker, the second one a ticker that is not
\* held, has a price today and is confirmed by its averages: no entry today
C11_Witness ==
    /\ pc = "valuation"
    /\ Len(ranked_signals) >= 2
    /\ Held(portfolio.positions, TopSignal(ranked_signals).tickers[1])
    /\ LET second == ranked_signals[2].tickers[1]
       IN  /\ second \in PriceTickers
           /\ ~Held(portfolio.positions, second)
           /\ HasRow(price_df, current_date)
           /\ Technical(price_df, second) = ranked_signals[2].signal
           /\ PositionSize(portfolio.cash, price_df[current_date][second].open) > 0
    /\ \A i \in 1..Len(trade_log) : trade_log[i].date < current_date

(***************************************************************************)
(* Calls of the decision engine                                            *)
(***************************************************************************)
Returns(fn) == call.fn = fn /\ ~call.done /\ call'.done

Returned(fn) == call.fn = fn /\ call.done

\* the j-th smallest member of a set of row numbers
NthOf(rows, j) == CHOOSE i \in rows : Cardinality({ k \in rows : k <= i }) = j

(***************************************************************************)
(* C12: find_trade_signals returns exactly the rows of its input whose     *)
(* sentiment is not neutral and whose confidence is at least the threshold *)
(* (a confidence equal to the threshold is kept), in their input order,    *)
(* each with signal BUY if positive and SELL if negative; the input table  *)
(* is as it was.  The thresholds in use are 90% (backtest) and 85% (live). *)
(***************************************************************************)
C12_FindTradeSignals ==
    [][ Returns("find_trade_signals") =>
        LET given == call.analysed_df
            threshold == call.confidence_threshold
            result == call'.returned
            kept == { i \in 1..Len(given) :
                        /\ given[i].sentiment # "neutral"
                        /\ given[i].confidence >= threshold }
        IN  /\ threshold \in {90, 85}
            /\ Len(result) = Cardinality(kept)
            /\ \A j \in 1..Len(result) :
                  LET row == given[NthOf(kept, j)]
                  IN  /\ [c \in DOMAIN row |-> result[j][c]] = row
                      /\ DOMAIN result[j] = DOMAIN row \cup {"signal"}
                      /\ row.sentiment = "positive" => result[j].signal = "BUY"
                      /\ row.sentiment = "negative" => result[j].signal = "SELL"
            /\ call'.analysed_df = given
      ]_vars

\* live threshold: a neutral row of high confidence is dropped, the negative
\* row whose confidence equals the threshold comes back as a SELL
C12_Witness ==
    /\ Returned("find_trade_signals")
    /\ call.confidence_threshold = live_confidence_threshold
    /\ Len(call.analysed_df) = 2
    /\ call.analysed_df[1].sentiment = "neutral"
    /\ call.analysed_df[1].confidence > call.confidence_threshold
    /\ call.analysed_df[2].sentiment = "negative"
    /\ call.analysed_df[2].confidence = call.confidence_threshold
    /\ Len(call.returned) = 1
    /\ call.returned[1].signal = "SELL"

(***************************************************************************)
(* C13: rank_signals returns a permutation of its input in descending      *)
(* order of confidence, and the sort is stable: signals of equal           *)
(* confidence keep their input order, so of two signals of confidence 95%  *)
(* the one listed first is the top signal.                                 *)
(***************************************************************************)
\* some one-to-one map of the rows of `ranked` onto those of `signals`
IsPermutationOf(ranked, signals) ==
    /\ Len(ranked) = Len(signals)
    /\ \E p \in Orderings(Len(signals)) :
          \A i \in 1..Len(signals) : ranked[i] = signals[p[i]]

\* the row numbers of `signals` in the order a stable descending sort gives:
\* row i goes before row j if it is more confident, or as confident and earlier
GoesBefore(signals, i, j) ==
    \/ signals[i].confidence > signals[j].confidence
    \/ signals[i].confidence = signals[j].confidence /\ i < j

StableRankOf(signals, i) ==
    1 + Cardinality({ j \in 1..Len(signals) : GoesBefore(signals, j, i) })

C13_RankStable ==
    [][ Returns("rank_signals") =>
        LET given == call.signals_df
            result == call'.returned
        IN  /\ IsPermutationOf(result, given)
            /\ SortedDescending(result)
            /\ \A i \in 1..Len(given) : result[StableRankOf(given, i)] = given[i]
      ]_vars

(***************************************************************************)
(* C14: check_ma_crossover_signal compares the latest simple moving        *)
(* averages of the close over 20 rows (fast) and over 50 rows (slow):      *)
(* BUY if fast > slow, SELL if fast < slow, HOLD if they are equal or if   *)
(* an average is undefined (the series has fewer rows than a window); the  *)
(* input series is as it was.                                              *)
(***************************************************************************)
RECURSIVE TotalClose(_, _)
TotalClose(series, rows) ==
    IF rows = {} THEN 0
    ELSE LET i == CHOOSE x \in rows : TRUE
         IN  series[i].close + TotalClose(series, rows \ {i})

\* the rows of the latest window of w rows
LatestRows(series, w) == (Len(series) - w + 1)..Len(series)

\* the means total/20 and total/50 compared as 50 * total and 20 * total
CrossoverOf(series) ==
    IF Len(series) < 20 \/ Len(series) < 50 THEN "HOLD"
    ELSE LET fast == 50 * TotalClose(series, LatestRows(series, 20))
             slow == 20 * TotalClose(series, LatestRows(series, 50))
         IN  CASE fast > slow -> "BUY"
               [] fast < slow -> "SELL"
               [] fast = slow -> "HOLD"

C14_Crossover ==
    [][ Returns("check_ma_crossover_signal") =>
        /\ call'.returned = CrossoverOf(call.price_history)
        /\ call'.price_history = call.price_history
      ]_vars

(***************************************************************************)
(* C15: the value sample appended for a day is the cash plus, for every    *)
(* open position, its quantity times the Close of its ticker on that day,  *)
(* or times its entry price when the price table has no quote for the      *)
(* ticker on that day.                                                     *)
(***************************************************************************)
ValuationStep == pc = "valuation" /\ pc' # "valuation"

RECURSIVE WorthOf(_, _, _, _)
WorthOf(positions, held, df, d) ==
    IF held = {} THEN 0
    ELSE LET i == CHOOSE x \in held : TRUE
             quote == IF DOMAIN df[d] = {} THEN positions[i].entry_price
                      ELSE df[d][positions[i].ticker].close
         IN  positions[i].quantity * quote + WorthOf(positions, held \ {i}, df, d)

C15_Valuation ==
    [][ ValuationStep =>
        LET sample == LastRow(portfolio_value_log')
        IN  /\ portfolio_value_log' = Append(portfolio_value_log, sample)
            /\ sample.date = current_date
            /\ sample.total_value =
                  portfolio.cash
                  + WorthOf(portfolio.positions, 1..Len(portfolio.positions),
                            price_df, current_date)
      ]_vars

\* a position valued at its Close on the day it was opened and at its entry
\* price on the next day, a day without prices
C15_Witness ==
    /\ pc = "exits"
    /\ current_date > 2
    /\ portfolio.positions # <<>>
    /\ exit_keys = DictKeys(portfolio.positions)
    /\ HasRow(price_df, current_date - 2)
    /\ ~HasRow(price_df, current_date - 1)
    /\ portfolio_value_log[current_date - 1].total_value
          = portfolio.cash + CostOfPositions(portfolio.positions)
    /\ portfolio_value_log[current_date - 2].total_value
          # portfolio_value_log[current_date - 1].total_value

(***************************************************************************)
(* C16: the loop runs once for every calendar day from the first to the    *)
(* last news date and ends; when it has ended the value series holds one   *)
(* sample for each of these days, in increasing order of date, the days    *)
(* without news and the days without prices included.                      *)
(***************************************************************************)
OneSamplePerDay ==
    /\ Len(portfolio_value_log) = NumDays
    /\ \A i \in 1..NumDays : portfolio_value_log[i].date = i
    /\ \A i, j \in 1..Len(portfolio_value_log) :
          i < j => portfolio_value_log[i].date < portfolio_value_log[j].date

\* what is left of the loop: the days after the current one, and the steps
\* of the current day
DaysAfterToday == NumDays - current_date

StepsLeftToday ==
    IF pc = "exits" THEN Len(exit_keys) + 2
    ELSE IF pc = "valuation" THEN 1
    ELSE 0

\* the loop is not stuck: the step that is due can be taken
StepDue ==
    \/ pc = "exits" /\ exit_keys # <<>> /\ ENABLED ManageOpenPosition
    \/ pc = "exits" /\ exit_keys = <<>> /\ NewsChoices(current_date) # {}
    \/ pc = "valuation" /\ ENABLED RecordDailyValue

\* every step shortens what is left, no state before the end is stuck, and
\* at the end the series is complete
C16_OneSamplePerDay ==
    /\ [][ \/ DaysAfterToday' < DaysAfterToday
           \/ DaysAfterToday' = DaysAfterToday /\ StepsLeftToday' < StepsLeftToday
         ]_vars
    /\ [](DaysAfterToday >= 0 /\ StepsLeftToday >= 0)
    /\ [](pc # "finished" => StepDue)
    /\ [](pc = "finished" => DaysAfterToday = 0 /\ OneSamplePerDay)

\* the loop has ended over a calendar with a day without price data
C16_Witness ==
    /\ pc = "finished"
    /\ current_date = NumDays
    /\ \E d \in Days : ~HasRow(price_df, d)
    /\ Len(portfolio_value_log) = NumDays

(***************************************************************************)
(* C17: an exit check on a date for which the price table has no row       *)
(* leaves the position as it was: no exit row, the cash unchanged, no      *)
(* error; the exit checks of the other open positions and the rest of the  *)
(* day still run.                                                          *)
(***************************************************************************)
C17_ExitCheckWithoutPrices ==
    [][ (AtExitCheck /\ ~HasRow(price_df, current_date)) =>
        /\ trade_log' = trade_log
        /\ portfolio' = portfolio
        /\ Held(portfolio'.positions, Head(exit_keys))
        /\ exit_keys' = Tail(exit_keys)
        /\ current_date' = current_date
        /\ pc' = "exits"
        /\ portfolio_value_log' = portfolio_value_log
      ]_vars

\* a day without prices: the first of two open positions has been checked
\* and kept, the check of the second is due
C17_Witness ==
    /\ pc = "exits"
    /\ ~HasRow(price_df, current_date)
    /\ Len(portfolio.positions) = 2
    /\ exit_keys = <<portfolio.positions[2].ticker>>
    /\ \A i \in 1..Len(trade_log) : IsEnter(trade_log[i])

(***************************************************************************)
(* C18: a price lookup that misses in the entry step (the ticker has no    *)
(* column in the price table, the table has no row for the date and so     *)
(* neither an Open nor a volatility for it, or the price history is empty) *)
(* skips the entry: cash, positions and ledger stay as they were before    *)
(* the entry step, the value sample of the day is still appended and the   *)
(* loop goes on to the next day.                                           *)
(***************************************************************************)
LookupMisses(df, d, ticker) ==
    \/ ticker \notin PriceTickers
    \/ DOMAIN df = {}
    \/ d \notin DOMAIN df
    \/ DOMAIN df[d] = {}

C18_EntryLookupMiss ==
    /\ [][ ( /\ EntryPhaseStep
             /\ ranked_signals' # <<>>
             /\ LookupMisses(price_df, current_date,
                             TopSignal(ranked_signals').tickers[1]) )
           => /\ portfolio' = portfolio
              /\ trade_log' = trade_log
              /\ pc' = "valuation"
         ]_vars
    /\ [][ ( /\ ValuationStep
             /\ ranked_signals # <<>>
             /\ LookupMisses(price_df, current_date,
                             TopSignal(ranked_signals).tickers[1]) )
           => /\ Len(portfolio_value_log') = Len(portfolio_value_log) + 1
              /\ LastRow(portfolio_value_log').date = current_date
              /\ portfolio' = portfolio
              /\ trade_log' = trade_log
              /\ IF current_date < NumDays
                 THEN current_date' = current_date + 1 /\ pc' = "exits"
                 ELSE pc' = "finished"
         ]_vars

\* a confirmed top signal of a ticker that is not held, on a date without a
\* price row, while another position is open: nothing entered
C18_Witness ==
    /\ pc = "valuation"
    /\ ranked_signals # <<>>
    /\ LET top_signal == TopSignal(ranked_signals)
           ticker == top_signal.tickers[1]
       IN  /\ ticker \in PriceTickers
           /\ ~Held(portfolio.positions, ticker)
           /\ Technical(price_df, ticker) = top_signal.signal
    /\ price_df # EmptyTable
    /\ ~HasRow(price_df, current_date)
    /\ portfolio.positions # <<>>
    /\ \A i \in 1..Len(trade_log) : trade_log[i].date < current_date

(***************************************************************************)
(* C19: every skip can be seen in the output: when an exit check is        *)
(* skipped for want of price data, and when the top candidate of a day is  *)
(* discarded (its ticker is held, the technical signal differs, the share  *)
(* count is not positive, a price lookup misses), a line is printed for    *)
(* that ticker on that day.                                                *)
(***************************************************************************)
NamesTicker(lines, ticker) == \E i \in 1..Len(lines) : lines[i].ticker = ticker

C19_SkipsLogged ==
    [][ /\ (AtExitCheck /\ ~HasRow(price_df, current_date))
             => NamesTicker(printed', Head(exit_keys))
        /\ (EntryPhaseStep /\ ranked_signals' # <<>> /\ trade_log' = trade_log)
             => NamesTicker(printed', TopSignal(ranked_signals').tickers[1])
      ]_vars

(***************************************************************************)
(* C20: a position is not changed after it is created: from its ENTER to   *)
(* its exit its quantity, entry price, entry date, direction, stop-loss    *)
(* and take-profit are those set at entry, and an exit row reports the     *)
(* quantity of the ENTER row it closes.                                    *)
(***************************************************************************)
\* the position agrees with the ENTER row that opened it
OpenedBy(position, row) ==
    /\ IsEnter(row)
    /\ row.ticker = position.ticker
    /\ row.quantity = position.quantity
    /\ row.price = position.entry_price
    /\ row.date = position.entry_date

C20_PositionImmutable ==
    /\ [][ \A i \in 1..Len(portfolio.positions) :
             LET position == portfolio.positions[i]
             IN  \/ ~Held(portfolio'.positions, position.ticker)
                 \/ \E j \in 1..Len(portfolio'.positions) :
                       portfolio'.positions[j] = position
         ]_vars
    /\ [](\A i \in 1..Len(portfolio.positions) :
            OpenedBy(portfolio.positions[i],
                     trade_log[EntryRowOf(trade_log, Len(trade_log),
                                          portfolio.positions[i].ticker)]))
    /\ [](\A k \in 1..Len(trade_log) :
            IsExit(trade_log[k]) =>
              /\ \E i \in 1..(k - 1) :
                    IsEnter(trade_log[i]) /\ trade_log[i].ticker = trade_log[k].ticker
              /\ trade_log[k].quantity =
                    trade_log[EntryRowOf(trade_log, k - 1, trade_log[k].ticker)].quantity)

\* one position closed on a later day with the quantity of its ENTER row,
\* another one kept through the exit check of a day with prices
C20_Witness ==
    /\ pc = "exits"
    /\ exit_keys = <<>>
    /\ HasRow(price_df, current_date)
    /\ \E i \in 1..Len(portfolio.positions) :
          portfolio.positions[i].entry_date < current_date
    /\ \E k \in 1..Len(trade_log) :
          /\ IsExit(trade_log[k])
          /\ trade_log[EntryRowOf(trade_log, k - 1, trade_log[k].ticker)].date
                < trade_log[k].date

(***************************************************************************)
(* executor.execute_trade_signal                                           *)
(***************************************************************************)
\* round(x, 2) of a positive money amount, in cents
Cents(x) == RoundHalfEven(x * 100, Scale)

\* the answer of the data client: an error, or the daily bars of the symbol
BarsError == [raises |-> TRUE, df |-> <<>>]
Bars(rows) == [raises |-> FALSE, df |-> rows]

\* the last of the tickers of the headline traded
SymbolLast(signal_data) == signal_data.tickers[Len(signal_data.tickers)]

Symbol(signal_data) == signal_data.tickers[1]

\* MarketOrderRequest of a bracket order, limit prices in cents
Order(symbol, qty, side, take_profit, stop_loss) ==
    [symbol |-> symbol, qty |-> qty, side |-> side, order_class |-> "BRACKET",
     take_profit |-> take_profit, stop_loss |-> stop_loss]

\* lines 92-113, signal BUY or SELL
BracketOrder(symbol, signal, quantity, last_price, atr) ==
    IF signal = "BUY"
    THEN Order(symbol, quantity, "BUY",
               Cents(last_price + atr * TargetMultiple),
               Cents(last_price - atr * StopMultiple))
    ELSE Order(symbol, quantity, "SELL",
               Cents(last_price - atr * TargetMultiple),
               Cents(last_price + atr * StopMultiple))

\* an order submitted whatever the signal says
execute_trade_signal_any(signal_data, cash_to_use, bars, accepts) ==
    LET symbol == Symbol(signal_data)
        preparing == <<Line("Preparing to execute trade", symbol, 0)>>
    IN  IF bars.raises \/ bars.df = <<>>
        THEN [submitted |-> <<>>,
              printed |-> preparing \o <<Line("Failed to execute trade", symbol, 0)>>]
        ELSE LET last_price == bars.df[Len(bars.df)].close
                 atr == calculate_atr(bars.df)[Len(bars.df)]
                 quantity == RoundHalfEven(cash_to_use, last_price)
                 sized == preparing \o <<Line("Position Size", symbol, 0)>>
             IN  [submitted |->
                      <<BracketOrder(symbol, signal_data.signal, quantity, last_price, atr)>>,
                  printed |-> sized \o
                      <<Line("Submitting bracket order", "", 0),
                        IF accepts THEN Line("Order submitted successfully", "", 0)
                        ELSE Line("Failed to execute trade", symbol, 0)>>]

\* the calls of submit_order made and the lines printed; every exception
\* raised between lines 66 and 121 is caught at line 123
execute_trade_signal(signal_data, cash_to_use, bars, accepts) ==
    LET symbol == Symbol(signal_data)
        signal == signal_data.signal
        preparing == <<Line("Preparing to execute trade", symbol, 0)>>
    IN  IF bars.raises \/ bars.df = <<>>
        THEN [submitted |-> <<>>,
              printed |-> preparing \o <<Line("Failed to execute trade", symbol, 0)>>]
        ELSE LET last_price == bars.df[Len(bars.df)].close
                 atr == calculate_atr(bars.df)[Len(bars.df)]
                 quantity == RoundHalfEven(cash_to_use, last_price)
                 sized == preparing \o <<Line("Position Size", symbol, 0)>>
             IN  IF signal \notin {"BUY", "SELL"}
                 THEN [submitted |-> <<>>,
                       printed |-> sized \o <<Line("Invalid signal", "", 0)>>]
                 ELSE [submitted |->
                          <<BracketOrder(symbol, signal, quantity, last_price, atr)>>,
                       printed |-> sized \o
                          <<Line("Submitting bracket order", "", 0),
                            IF accepts THEN Line("Order submitted successfully", "", 0)
                            ELSE Line("Failed to execute trade", symbol, 0)>>]

(***************************************************************************)
(* live_bot: run_live_pipeline, one cycle of main                          *)
(***************************************************************************)
\* an article of the feeds with what the identifier and the analyser make of
\* its title
Article(link, tickers, sentiment, confidence) ==
    [link |-> link] @@ Headline(tickers, sentiment, confidence)

\* the articles the feeds can return, newest first
LiveWire == << Article("L1", <<"AAA", "BBB">>, "positive", 95),
               Article("L2", <<"BBB">>, "negative", 95),
               Article("L3", <<>>, "neutral", 99),
               Article("L4", <<"CCC">>, "positive", live_confidence_threshold) >>

Feeds ==
    { Pick(LiveWire, chosen, 1) : chosen \in
        { c \in SUBSET (1..Len(LiveWire)) : Cardinality(c) <= MaxFeed } }

\* the answer of the broker to get_all_positions and get_account
AccountError == [raises |-> TRUE, positions |-> [t \in {} |-> 0], portfolio_value |-> 0]
Account(positions) ==
    [raises |-> FALSE, positions |-> positions, portfolio_value |-> start_cash]
Holding(symbol, dollars) == [t \in {symbol} |-> dollars * Scale]

\* nothing held; a position below, at and above half of the allocation cap
Accounts == { AccountError, Account([t \in {} |-> 0]),
              Account(Holding("AAA", 4000)), Account(Holding("BBB", 5000)),
              Account(Holding("AAA", 6000)) }

\* the daily bars the data client can answer with: none, two bars of a
\* share near 100 dollars, one bar of a share of 10000 dollars
LiveBars == { BarsError, Bars(<<>>), Bars(<<FlatBar, UpBar>>), Bars(<<FlatBarC>>) }

Links(articles) == { articles[i].link : i \in 1..Len(articles) }

\* every article of the feeds taken as new
NewArticlesAll(feed, seen) == feed

\* line 41
NewArticles(feed, seen) ==
    LET IsNew(a) == a.link \notin seen IN SelectSeq(feed, IsNew)

\* line 50
RelevantNews(articles) ==
    LET Tagged(a) == Len(a.tickers) > 0 IN SelectSeq(articles, Tagged)

CashForNewTrade(portfolio_value) ==
    (portfolio_value * cash_for_new_trade_percent) \div 100

\* the cap tested on the new trade alone, whatever is held
WithinAllocationOfTrade(current_position_value, portfolio_value) ==
    CashForNewTrade(portfolio_value) * 100 <= portfolio_value * max_allocation_percent

\* line 72
WithinAllocation(current_position_value, portfolio_value) ==
    (current_position_value + CashForNewTrade(portfolio_value)) * 100
        <= portfolio_value * max_allocation_percent

\* the ranked tables of the cycle: none when line 57 is not reached
RankedOfCycle(account, feed, analyser_ok, seen) ==
    LET relevant == RelevantNews(NewArticles(feed, seen))
        signals == find_trade_signals(relevant, live_confidence_threshold)
    IN  IF account.raises \/ relevant = <<>> \/ ~analyser_ok \/ signals = <<>>
        THEN {<<>>}
        ELSE rank_signals(signals)

Cycle(returned_at, all_news_df, seen, submitted, lines, new_articles, analysed_df, executed, current_position_value, portfolio_value) ==
    [returned_at |-> returned_at, seen_news_links |-> seen, submitted |-> submitted,
     printed |-> lines,
     locals |-> [returned_at |-> returned_at, all_news_df |-> all_news_df,
                 new_articles |-> new_articles, analysed_df |-> analysed_df,
                 executed |-> executed,
                 current_position_value |-> current_position_value,
                 portfolio_value |-> portfolio_value]]

\* the links of the cycle not added to the memory
UpdatedMemoryForgets(seen, new_articles) == seen

\* lines 84-85
UpdatedMemory(seen, new_articles) == seen \cup Links(new_articles)

\* the set returned to main, the calls of submit_order and the lines printed;
\* "raised" when an exception leaves the function (the analyser failing)
run_live_pipeline(account, feed, analyser_ok, ranked, bars, accepts, seen) ==
    LET new_articles == NewArticles(feed, seen)
        relevant == RelevantNews(new_articles)
        found == <<Line("Found new articles to analyse", "", 0)>>
        memory == UpdatedMemory(seen, new_articles)
    IN  IF account.raises
        THEN Cycle("line 31", <<>>, seen, <<>>,
                   <<Line("Error fetching portfolio state", "", 0)>>,
                   <<>>, <<>>, FALSE, 0, account.portfolio_value)
        ELSE IF feed = <<>>
        THEN Cycle("line 37", feed, seen, <<>>,
                   <<Line("No news was gathered in this cycle", "", 0)>>,
                   <<>>, <<>>, FALSE, 0, account.portfolio_value)
        ELSE IF new_articles = <<>>
        THEN Cycle("line 44", feed, seen, <<>>,
                   <<Line("No new news articles found in this cycle", "", 0)>>,
                   <<>>, <<>>, FALSE, 0, account.portfolio_value)
        ELSE IF relevant = <<>>
        THEN Cycle("line 87", feed, memory, <<>>, found, new_articles, <<>>, FALSE,
                   0, account.portfolio_value)
        ELSE IF ~analyser_ok
        THEN Cycle("raised", feed, seen, <<>>, found, new_articles, <<>>, FALSE,
                   0, account.portfolio_value)
        ELSE IF ranked = <<>>
        THEN Cycle("line 87", feed, memory, <<>>, found, new_articles, relevant, FALSE,
                   0, account.portfolio_value)
        ELSE LET top_signal == ranked[1]
                 ticker_to_trade == top_signal.tickers[1]
                 held == ticker_to_trade \in DOMAIN account.positions
                 current_position_value ==
                     IF held THEN account.positions[ticker_to_trade] ELSE 0
                 already == IF held
                            THEN <<Line("already in the portfolio", ticker_to_trade, 0)>>
                            ELSE <<>>
             IN  IF WithinAllocation(current_position_value, account.portfolio_value)
                 THEN LET done == execute_trade_signal(top_signal,
                                      CashForNewTrade(account.portfolio_value),
                                      bars, accepts)
                      IN  Cycle("line 87", feed, memory, done.submitted,
                                found \o already
                                \o <<Line("Top Trade Signal Identified", "", 0)>>
                                \o done.printed,
                                new_articles, relevant, TRUE,
                                current_position_value, account.portfolio_value)
                 ELSE Cycle("line 87", feed, memory, <<>>,
                            found \o already
                            \o <<Line("SKIPPING TRADE", ticker_to_trade, 0)>>,
                            new_articles, relevant, FALSE,
                            current_position_value, account.portfolio_value)

\* the data client and the broker answer only in execute_trade_signal, which
\* is called with a top signal: without one their answers are never asked for
AskedBars(ranked) == IF ranked = <<>> THEN {BarsError} ELSE LiveBars
AskedBroker(ranked) == IF ranked = <<>> THEN {FALSE} ELSE BOOLEAN

\* one turn of the loop of main: the cycle, then the line of line 113 or,
\* after an exception, of line 123
RunLivePipeline ==
    /\ pc = "live"
    /\ cycles < MaxCycles
    /\ \E account \in Accounts, feed \in Feeds, analyser_ok \in BOOLEAN :
          \E ranked \in RankedOfCycle(account, feed, analyser_ok, seen_news_links) :
          \E bars \in AskedBars(ranked), accepts \in AskedBroker(ranked) :
          \E run \in {run_live_pipeline(account, feed, analyser_ok, ranked,
                                        bars, accepts, seen_news_links)} :
                 /\ seen_news_links' = run.seen_news_links
                 /\ submitted_orders' = submitted_orders \o run.submitted
                 /\ ranked_signals' = ranked
                 /\ pipeline' = run.locals
                 /\ printed' = run.printed \o
                       << IF run.returned_at = "raised"
                          THEN Line("An error occurred in the main loop", "", 0)
                          ELSE Line("Cycle complete", "", 0) >>
    /\ cycles' = cycles + 1
    /\ UNCHANGED <<price_df, portfolio, trade_log, portfolio_value_log,
                   current_date, exit_keys, todays_news, pc, call>>

LiveInit ==
    /\ price_df = [d \in Days |-> NoRow]
    /\ portfolio = [cash |-> start_cash, positions |-> <<>>]
    /\ trade_log = <<>>
    /\ portfolio_value_log = <<>>
    /\ current_date = 1
    /\ exit_keys = <<>>
    /\ todays_news = <<>>
    /\ ranked_signals = <<>>
    /\ printed = <<>>
    /\ pc = "live"
    /\ call = NoCall
    /\ seen_news_links = {}
    /\ submitted_orders = <<>>
    /\ cycles = 0
    /\ pipeline = NoCycle

LiveNext == RunLivePipeline

LiveSpec == LiveInit /\ [][LiveNext]_vars

(***************************************************************************)
(* The backtest and the live bot side by side                              *)
(***************************************************************************)
BotInit == Init \/ LiveInit

BotNext == Next \/ LiveNext

BotSpec == BotInit /\ [][BotNext]_vars

(***************************************************************************)
(* C21: only the primary ticker of a headline is actionable.  Every ENTER  *)
(* row of the backtest and every order of the live bot names the first     *)
(* ticker of the top-ranked signal of its day or cycle, and no position is *)
(* opened in any other ticker, so a ticker in a later place of a           *)
(* headline's tickers is never opened because of that headline.            *)
(***************************************************************************)
HeldTickers(positions) == { positions[i].ticker : i \in 1..Len(positions) }

AddedTo(before, after) == (Len(before) + 1)..Len(after)

PrimaryTicker(ranked) == TopSignal(ranked).tickers[1]

C21_PrimaryTickerOnly ==
    /\ [][ \A k \in AddedTo(trade_log, trade_log') :
              IsEnter(trade_log'[k]) =>
                 /\ EntryPhaseStep
                 /\ ranked_signals' # <<>>
                 /\ trade_log'[k].ticker = PrimaryTicker(ranked_signals') ]_vars
    /\ [][ \A t \in HeldTickers(portfolio'.positions) \ HeldTickers(portfolio.positions) :
              /\ ranked_signals' # <<>>
              /\ t = PrimaryTicker(ranked_signals') ]_vars
    /\ [][ \A k \in AddedTo(submitted_orders, submitted_orders') :
              /\ ranked_signals' # <<>>
              /\ submitted_orders'[k].symbol = PrimaryTicker(ranked_signals') ]_vars

\* the top signal of the cycle is a headline of two tickers: the order that
\* went to the broker names the first, and no order names the second
C21_Witness ==
    /\ pc = "live"
    /\ pipeline.executed
    /\ ranked_signals # <<>>
    /\ Len(TopSignal(ranked_signals).tickers) = 2
    /\ submitted_orders # <<>>
    /\ submitted_orders[Len(submitted_orders)].symbol = TopSignal(ranked_signals).tickers[1]
    /\ \A k \in 1..Len(submitted_orders) :
          submitted_orders[k].symbol # TopSignal(ranked_signals).tickers[2]

(***************************************************************************)
(* C22: valuation is idempotent.  The valuation step changes neither the   *)
(* cash nor the positions nor the ledger nor the price table, and the      *)
(* total computed once more for the same day from the state it leaves is   *)
(* the sample it recorded.                                                 *)
(***************************************************************************)
C22_ValuationIdempotent ==
    [][ ValuationStep =>
        LET sample == LastRow(portfolio_value_log')
        IN  /\ portfolio' = portfolio
            /\ trade_log' = trade_log
            /\ price_df' = price_df
            /\ TotalValue(portfolio', price_df', sample.date) = sample.total_value
            /\ TotalValue(portfolio, price_df, sample.date) = sample.total_value
      ]_vars

\* a day valued with two open positions, one of them opened that day, at
\* prices that differ from the entry prices
C22_Witness ==
    /\ pc \in {"exits", "finished"}
    /\ portfolio_value_log # <<>>
    /\ Len(portfolio.positions) = 2
    /\ LET sample == LastRow(portfolio_value_log)
       IN  /\ HasRow(price_df, sample.date)
           /\ \E i \in 1..2 : portfolio.positions[i].entry_date = sample.date
           /\ sample.total_value # portfolio.cash + CostOfPositions(portfolio.positions)
           /\ sample.total_value = TotalValue(portfolio, price_df, sample.date)

(***************************************************************************)
(* C23: the filter and the ranker are total on empty input.  Called with a *)
(* table of classified headlines that has no rows, find_trade_signals and  *)
(* rank_signals each return a table with no rows: the call always comes    *)
(* back (no error), and it leaves its input as it was.                     *)
(***************************************************************************)
EmptyFilterCall == call.fn = "find_trade_signals" /\ call.analysed_df = <<>>

EmptyRankCall == call.fn = "rank_signals" /\ call.signals_df = <<>>

C23_EmptyInEmptyOut ==
    /\ [][ (EmptyFilterCall /\ Returns("find_trade_signals")) =>
              /\ call'.returned = <<>>
              /\ call'.analysed_df = <<>> ]_vars
    /\ [][ (EmptyRankCall /\ Returns("rank_signals")) =>
              /\ call'.returned = <<>>
              /\ call'.signals_df = <<>> ]_vars
    /\ []( ((EmptyFilterCall \/ EmptyRankCall) /\ ~call.done) =>
              ENABLED (FindTradeSignalsCall \/ RankSignalsCall) )

\* rank_signals has returned from a call with a table without rows
C23_Witness ==
    /\ EmptyRankCall
    /\ call.done
    /\ call.returned = <<>>

(***************************************************************************)
(* run_backtest from its first line to its last: the two files are read,   *)
(* the days are simulated, the results are reported                        *)
(***************************************************************************)
\* what pd.read_csv does with a file: it reads it, or raises FileNotFoundError
\* (no such file) or another error (EmptyDataError for a file without a
\* header line, PermissionError for a file that may not be read)
FileOutcomes == {"read", "FileNotFoundError", "OtherError"}

\* lines 23-54; the news file is read first
LoadData ==
    /\ pc = "load"
    /\ \E news_file \in FileOutcomes, price_file \in FileOutcomes :
          LET failure == IF news_file # "read" THEN news_file ELSE price_file
              starting == <<Line("Starting Backtest with Technical Filter", "", 0)>>
          IN  IF failure = "read"
              THEN /\ price_df' \in PriceTables
                   /\ pc' = "exits"
                   /\ printed' = starting \o <<Line("Backtest period", "", 0),
                                               Line("Starting cash", "", 0)>>
              ELSE IF failure = "FileNotFoundError"
              THEN /\ price_df' = price_df
                   /\ pc' = "returned"
                   /\ printed' = starting \o
                         <<Line("Error: Make sure you have created the data files", "", 0)>>
              ELSE /\ price_df' = price_df
                   /\ pc' = "raised"
                   /\ printed' = starting
    /\ UNCHANGED <<portfolio, trade_log, portfolio_value_log, current_date, exit_keys,
                   todays_news, ranked_signals, call, live_vars>>

\* a figure written to the standard output
Figure(text, value) == [text |-> text, ticker |-> "", date |-> 0, value |-> value]

\* f"{total_return:.2f}" of (final_value - start_cash) / start_cash * 100, in
\* hundredths of a percent: the nearest one, and either neighbour for a return
\* halfway between two, which its binary value decides
FormatReturn(final_value) ==
    LET den == start_cash \div 10000
        q == (final_value - start_cash) \div den
        r == (final_value - start_cash) % den
    IN  IF 2 * r < den THEN {q}
        ELSE IF 2 * r > den THEN {q + 1}
        ELSE {q, q + 1}

\* every row of the ledger counted as a trade
TradesMadeAllRows(log) == Len(log)

\* line 167
TradesMade(log) ==
    LET Entered(t) == t.action = "ENTER" IN Len(SelectSeq(log, Entered))

\* lines 161-167
Report ==
    /\ pc = "finished"
    /\ LET final_value == portfolio_value_log[Len(portfolio_value_log)].total_value
       IN  \E total_return \in FormatReturn(final_value) :
              printed' = << Line("--- Backtest Finished ---", "", 0),
                            Figure("Final Portfolio Value", Cents(final_value)),
                            Figure("Total Return", total_return),
                            Figure("Total Trades Made", TradesMade(trade_log)) >>
    /\ pc' = "reported"
    /\ UNCHANGED <<price_df, portfolio, trade_log, portfolio_value_log, current_date,
                   exit_keys, todays_news, ranked_signals, call, live_vars>>

RunInit ==
    /\ price_df = EmptyTable
    /\ portfolio = [cash |-> start_cash, positions |-> <<>>]
    /\ trade_log = <<>>
    /\ portfolio_value_log = <<>>
    /\ current_date = 1
    /\ exit_keys = <<>>
    /\ todays_news = <<>>
    /\ ranked_signals = <<>>
    /\ printed = <<>>
    /\ pc = "load"
    /\ call = NoCall
    /\ seen_news_links = {}
    /\ submitted_orders = <<>>
    /\ cycles = 0
    /\ pipeline = NoCycle

RunNext == LoadData \/ Next \/ Report

RunSpec == RunInit /\ [][RunNext]_vars

(***************************************************************************)
(* C24: missing input is fatal before any simulation.  If the news file or *)
(* the price file cannot be loaded, run_backtest prints a message and      *)
(* returns; no day is simulated, so the ledger and the value series stay   *)
(* empty.                                                                  *)
(***************************************************************************)
Says(lines, text) == \E i \in 1..Len(lines) : lines[i].text = text

NotLoaded == pc = "load" /\ pc' # "exits"

C24_InputMissingFatal ==
    /\ [][ NotLoaded =>
              /\ pc' = "returned"
              /\ Says(printed', "Error: Make sure you have created the data files") ]_vars
    /\ []( pc \in {"load", "returned", "raised"} =>
              /\ trade_log = <<>>
              /\ portfolio_value_log = <<>>
              /\ ~ENABLED (ManageOpenPosition \/ CheckForNewSignals
                           \/ RecordDailyValue \/ Report) )

\* the part of it that concerns a file that is not there
FileNotFoundIsFatal ==
    /\ [][ (NotLoaded /\ pc' # "raised") =>
              /\ pc' = "returned"
              /\ Says(printed', "Error: Make sure you have created the data files") ]_vars
    /\ []( pc \in {"load", "returned", "raised"} =>
              /\ trade_log = <<>>
              /\ portfolio_value_log = <<>>
              /\ ~ENABLED (ManageOpenPosition \/ CheckForNewSignals
                           \/ RecordDailyValue \/ Report) )

(***************************************************************************)
(* C25: the report at the end of the run.  The final value is the last     *)
(* sample of the value series, the total return is (final value - starting *)
(* cash) / starting cash x 100, and the trade count is the number of       *)
(* ledger rows whose action is ENTER; exit rows are not counted.           *)
(***************************************************************************)
Reported(lines, text) ==
    lines[CHOOSE i \in 1..Len(lines) : lines[i].text = text].value

ReportStep == pc = "finished" /\ pc' = "reported"

\* the money that is a hundredth of a percent of the starting cash
OneHundredth == (start_cash_dollars * Scale) \div (100 * 100)

C25_Report ==
    [][ ReportStep =>
        LET last == portfolio_value_log[Len(portfolio_value_log)].total_value
            gain == last - start_cash
            cents == Reported(printed', "Final Portfolio Value")
            hundredths == Reported(printed', "Total Return")
        IN  /\ Says(printed', "Final Portfolio Value")
            /\ Says(printed', "Total Return")
            /\ Says(printed', "Total Trades Made")
            \* the last sample, to the nearest cent
            /\ 2 * Abs(cents * Scale - last * 100) <= Scale
            \* gain / start_cash * 100, to the nearest hundredth of a percent
            /\ 2 * Abs(hundredths * OneHundredth - gain) <= OneHundredth
            /\ Reported(printed', "Total Trades Made")
                  = Cardinality({ k \in 1..Len(trade_log) : trade_log[k].action = "ENTER" })
            /\ trade_log' = trade_log
            /\ portfolio_value_log' = portfolio_value_log
      ]_vars

\* a run with entries and exits that ended above its starting cash, and
\* whose last sample differs from the one before
C25_Witness ==
    /\ pc = "reported"
    /\ \E k \in 1..Len(trade_log) : trade_log[k].action # "ENTER"
    /\ Reported(printed, "Total Trades Made") >= 2
    /\ Reported(printed, "Total Return") > 0
    /\ portfolio_value_log[NumDays].total_value # portfolio_value_log[NumDays - 1].total_value

(***************************************************************************)
(* C26: the trade ledger is append-only.  Every step leaves the rows       *)
(* already in the ledger as they are and adds rows at the end only; every  *)
(* row has action ENTER, EXIT_TP or EXIT_SL; dates never decrease along    *)
(* the ledger; within one day every exit row precedes the ENTER row.       *)
(***************************************************************************)
C26_LedgerAppendOnly ==
    /\ [][ /\ Len(trade_log') >= Len(trade_log)
           /\ \A k \in 1..Len(trade_log) : trade_log'[k] = trade_log[k]
           /\ \A k \in AddedTo(trade_log, trade_log') :
                 /\ trade_log'[k].action \in {"ENTER", "EXIT_TP", "EXIT_SL"}
                 /\ trade_log'[k].date = current_date ]_vars
    /\ []( \A i, j \in 1..Len(trade_log) :
              i < j =>
                 /\ trade_log[i].date <= trade_log[j].date
                 /\ ( trade_log[i].date = trade_log[j].date
                      /\ trade_log[i].action = "ENTER" )
                    => trade_log[j].action \notin ExitActions )

\* a ledger of an entry on one day and, on a later day, two exits followed
\* by an entry
C26_Witness ==
    /\ Len(trade_log) >= 4
    /\ \E i, j, k \in 1..Len(trade_log) :
          /\ i < j /\ j < k
          /\ trade_log[i].action \in ExitActions
          /\ trade_log[j].action \in ExitActions
          /\ trade_log[k].action = "ENTER"
          /\ trade_log[i].date = trade_log[k].date
          /\ trade_log[j].date = trade_log[k].date
          /\ trade_log[1].date < trade_log[k].date

(***************************************************************************)
(* calculate_atr and execute_trade_signal, each called on its own          *)
(***************************************************************************)
OhlcColumns == {"open", "high", "low", "close"}

\* a DataFrame: its columns and its rows in index order
Frame(columns, rows) == [columns |-> columns, rows |-> rows]

\* df[columns], row by row
Project(rows, columns) ==
    [i \in 1..Len(rows) |-> [c \in columns |-> rows[i][c]]]

\* lines 11-17 of backtester.py, lines 41-54 of executor.py: the columns are
\* added to a copy; a column that is not there raises KeyError
AtrFrame(df) ==
    IF ~({"high", "low", "close"} \subseteq df.columns)
    THEN [raises |-> "KeyError", df |-> Frame({}, <<>>)]
    ELSE [raises |-> "none",
          df |-> Frame(df.columns \cup {"high-low", "high-prev_close",
                                        "low-prev_close", "tr", "atr"},
                       [i \in 1..Len(df.rows) |->
                           df.rows[i] @@ [tr |-> TrueRange(df.rows, i),
                                          atr |-> calculate_atr(df.rows)[i]]])]

UnitBars == {FlatBar, UpBar, DownBar, WideBar}

\* the series of at most MaxBars rows whose smoothed values are exact
OhlcSeries ==
    { rows \in UNION { [1..n -> UnitBars] : n \in 0..MaxBars } : AtrExact(rows) }

\* the tables handed to calculate_atr: whole ones, and short ones that lack
\* one of the three columns it reads
OhlcFrames ==
    { Frame(OhlcColumns, rows) : rows \in OhlcSeries }
    \cup { Frame(OhlcColumns \ {c}, Project(rows, OhlcColumns \ {c})) :
              c \in {"high", "low", "close"},
              rows \in { r \in OhlcSeries : Len(r) <= 1 } }

AtrCall(df) ==
    [fn |-> "calculate_atr", df |-> df, done |-> FALSE,
     returned |-> [raises |-> "none", df |-> Frame({}, <<>>)]]

\* the signals handed to execute_trade_signal: a row of the ranked table, or
\* one whose direction is neither BUY nor SELL
LiveSignals ==
    { Headline(tickers, "positive", 95) @@ [signal |-> signal] :
        tickers \in {<<"AAA">>, <<"AAA", "BBB">>},
        signal \in {"BUY", "SELL", "HOLD", ""} }

ExecuteCall(signal_data, cash_to_use, bars, accepts) ==
    [fn |-> "execute_trade_signal", signal_data |-> signal_data,
     cash_to_use |-> cash_to_use, bars |-> bars, accepts |-> accepts,
     done |-> FALSE]

ExecutorCalls ==
    { AtrCall(df) : df \in OhlcFrames }
    \cup { ExecuteCall(s, CashForNewTrade(start_cash), b, a) :
              s \in LiveSignals, b \in LiveBars, a \in BOOLEAN }

CalculateAtrCall ==
    /\ call.fn = "calculate_atr" /\ ~call.done
    /\ call' = [call EXCEPT !.returned = AtrFrame(call.df), !.done = TRUE]
    /\ UNCHANGED <<price_df, portfolio, trade_log, portfolio_value_log,
                   current_date, exit_keys, todays_news, ranked_signals, printed, pc,
                   live_vars>>

ExecuteTradeSignalCall ==
    /\ call.fn = "execute_trade_signal" /\ ~call.done
    /\ LET made == execute_trade_signal(call.signal_data, call.cash_to_use,
                                        call.bars, call.accepts)
       IN  /\ submitted_orders' = submitted_orders \o made.submitted
           /\ printed' = made.printed
    /\ call' = [call EXCEPT !.done = TRUE]
    /\ UNCHANGED <<price_df, portfolio, trade_log, portfolio_value_log,
                   current_date, exit_keys, todays_news, ranked_signals, pc,
                   seen_news_links, cycles, pipeline>>

ExecutorInit ==
    /\ price_df = [d \in Days |-> NoRow]
    /\ portfolio = [cash |-> start_cash, positions |-> <<>>]
    /\ trade_log = <<>>
    /\ portfolio_value_log = <<>>
    /\ current_date = 1
    /\ exit_keys = <<>>
    /\ todays_news = <<>>
    /\ ranked_signals = <<>>
    /\ printed = <<>>
    /\ pc = "executor"
    /\ call \in ExecutorCalls
    /\ seen_news_links = {}
    /\ submitted_orders = <<>>
    /\ cycles = 0
    /\ pipeline = NoCycle

ExecutorNext == CalculateAtrCall \/ ExecuteTradeSignalCall

ExecutorSpec == ExecutorInit /\ [][ExecutorNext]_vars

(***************************************************************************)
(* C27: calculate_atr.  For an ascending OHLC series the true range of a   *)
(* row is max(high - low, |high - previous close|, |low - previous close|) *)
(* (high - low for the first row, which has no previous close); the        *)
(* smoothed value starts at v_0 = tr_0 and follows                         *)
(* v_t = a * tr_t + (1 - a) * v_(t-1) with a = 1/N, N = 14.  The value at  *)
(* row t is the same when the rows after t are cut off, and the input      *)
(* table is as it was.                                                     *)
(***************************************************************************)
Greatest(S) == CHOOSE m \in S : \A x \in S : m >= x

RangeOf(rows, t) ==
    IF t = 1 THEN rows[1].high - rows[1].low
    ELSE Greatest({ rows[t].high - rows[t].low,
                    Abs(rows[t].high - rows[t - 1].close),
                    Abs(rows[t].low - rows[t - 1].close) })

C27_AtrRecursion ==
    [][ (Returns("calculate_atr") /\ call'.returned.raises = "none") =>
        LET given == call.df.rows
            result == call'.returned.df.rows
        IN  /\ Len(result) = Len(given)
            /\ \A t \in 1..Len(given) :
                  /\ result[t].tr = RangeOf(given, t)
                  /\ t = 1 => result[t].atr = result[t].tr
                  /\ t > 1 => 14 * result[t].atr
                                 = result[t].tr + (14 - 1) * result[t - 1].atr
                  /\ AtrFrame(Frame(call.df.columns, SubSeq(given, 1, t))).df.rows[t].atr
                        = result[t].atr
                  /\ [c \in call.df.columns |-> result[t][c]] = given[t]
            /\ call'.df = call.df
      ]_vars

\* three rows: the second opens a gap above the first close, the third a
\* gap below the second close, so each true range is set by the previous
\* close, and the smoothed value has moved away from the first true range
C27_Witness ==
    /\ Returned("calculate_atr")
    /\ call.returned.raises = "none"
    /\ Len(call.df.rows) = 3
    /\ LET given == call.df.rows
           result == call.returned.df.rows
       IN  /\ result[2].tr = given[2].high - given[1].close
           /\ result[2].tr > given[2].high - given[2].low
           /\ result[3].tr = given[2].close - given[3].low
           /\ result[3].tr > given[3].high - given[3].low
           /\ result[3].atr > result[1].atr
           /\ result[3].atr < result[3].tr

(***************************************************************************)
(* C28: the volatility estimator fails (InsufficientData) when the series  *)
(* has no rows or lacks one of the columns high, low, close; it returns no *)
(* result in those cases.                                                  *)
(***************************************************************************)
LacksData(df) ==
    \/ df.rows = <<>>
    \/ ~({"high", "low", "close"} \subseteq df.columns)

C28_InsufficientData ==
    [][ (Returns("calculate_atr") /\ LacksData(call.df)) =>
            call'.returned.raises # "none" ]_vars

\* the part of it that concerns a missing column
MissingColumnFails ==
    [][ (Returns("calculate_atr")
         /\ ~({"high", "low", "close"} \subseteq call.df.columns)) =>
            call'.returned.raises # "none" ]_vars

(***************************************************************************)
(* C29: an invalid signal.  When execute_trade_signal is handed a signal   *)
(* whose direction is neither BUY nor SELL it logs a message, drops the    *)
(* candidate and calls submit_order not once; the call returns, no         *)
(* exception reaches the caller.                                           *)
(***************************************************************************)
InvalidSignalCall ==
    /\ call.fn = "execute_trade_signal"
    /\ call.signal_data.signal \notin {"BUY", "SELL"}

C29_InvalidSignal ==
    /\ [][ (InvalidSignalCall /\ Returns("execute_trade_signal")) =>
              /\ submitted_orders' = submitted_orders
              /\ \/ Says(printed', "Invalid signal")
                 \/ Says(printed', "Failed to execute trade") ]_vars
    /\ []( (InvalidSignalCall /\ ~call.done) => ENABLED ExecuteTradeSignalCall )
    /\ []( (InvalidSignalCall /\ call.done) => submitted_orders = <<>> )

\* a HOLD for a symbol whose bars came back and whose order the broker
\* would have taken: the line 'Invalid signal' and no order
C29_Witness ==
    /\ InvalidSignalCall
    /\ call.done
    /\ call.signal_data.signal = "HOLD"
    /\ ~call.bars.raises
    /\ call.bars.df # <<>>
    /\ call.accepts
    /\ Says(printed, "Invalid signal")
    /\ submitted_orders = <<>>

(***************************************************************************)
(* C30: the memory of the live bot.  The set of processed links persists   *)
(* from cycle to cycle and only grows.  An article whose link is in the    *)
(* set when a cycle starts is not analysed, ranked or traded in that       *)
(* cycle; the links of the new articles of a cycle that ran to its end are *)
(* in the set afterwards, so that headline is never processed again.       *)
(***************************************************************************)
CycleStep == cycles' = cycles + 1

C30_SeenLinksPersist ==
    /\ [][ seen_news_links \subseteq seen_news_links' ]_vars
    /\ [][ CycleStep =>
              /\ Links(pipeline'.new_articles) \cap seen_news_links = {}
              /\ Links(pipeline'.analysed_df) \cap seen_news_links = {}
              /\ Links(ranked_signals') \cap seen_news_links = {}
              /\ submitted_orders' # submitted_orders =>
                    /\ ranked_signals' # <<>>
                    /\ TopSignal(ranked_signals').link \notin seen_news_links
                    /\ submitted_orders'[Len(submitted_orders')].symbol
                          = TopSignal(ranked_signals').tickers[1]
              /\ pipeline'.returned_at = "line 87" =>
                    /\ Links(pipeline'.new_articles) \subseteq seen_news_links'
                    /\ \A i \in 1..Len(pipeline'.all_news_df) :
                          pipeline'.all_news_df[i].link \in seen_news_links' ]_vars

\* the second cycle: the feeds returned an article of the first cycle, which
\* had led to an order, next to a new one; only the new one was analysed,
\* and it led to the second order
C30_Witness ==
    /\ cycles = 2
    /\ pipeline.returned_at = "line 87"
    /\ Len(pipeline.all_news_df) = 2
    /\ Len(pipeline.new_articles) = 1
    /\ pipeline.analysed_df = pipeline.new_articles
    /\ pipeline.executed
    /\ Len(submitted_orders) = 2
    /\ submitted_orders[1].symbol # submitted_orders[2].symbol
    /\ Links(pipeline.all_news_df) \subseteq seen_news_links

(***************************************************************************)
(* C31: the allocation cap of the live bot.  execute_trade_signal is       *)
(* called only when the market value of the position in the ticker of the  *)
(* top signal (0 when it is not held) plus 5% of the portfolio value is at *)
(* most 10% of the portfolio value; otherwise the cycle prints that the    *)
(* trade is skipped and no order is submitted.                             *)
(***************************************************************************)
\* (position + 5% of the portfolio) <= 10% of the portfolio, in hundredths
UnderCap(locals) ==
    locals.current_position_value * 100 + locals.portfolio_value * 5
        <= locals.portfolio_value * 10

C31_AllocationCap ==
    [][ CycleStep =>
          /\ pipeline'.executed => ranked_signals' # <<>> /\ UnderCap(pipeline')
          /\ submitted_orders' # submitted_orders => pipeline'.executed
          /\ (ranked_signals' # <<>> /\ ~UnderCap(pipeline')) =>
                /\ ~pipeline'.executed
                /\ Says(printed', "SKIPPING TRADE")
                /\ submitted_orders' = submitted_orders
          /\ (ranked_signals' # <<>> /\ UnderCap(pipeline')) =>
                /\ pipeline'.executed
                /\ ~Says(printed', "SKIPPING TRADE") ]_vars

\* a position worth exactly 5% of the portfolio: the order was submitted
C31_Witness ==
    /\ pipeline.executed
    /\ pipeline.current_position_value > 0
    /\ pipeline.current_position_value * 100 + pipeline.portfolio_value * 5
          = pipeline.portfolio_value * 10
    /\ submitted_orders # <<>>

(***************************************************************************)
(* C32: ledger and portfolio agree in every state of the backtest.  The    *)
(* rows of one ticker alternate ENTER, exit, ENTER, exit, ... and start    *)
(* with ENTER; a ticker is held exactly when its last row is an ENTER; the *)
(* ENTER rows less the exit rows number the open positions.                *)
(***************************************************************************)
RowsOf(log, ticker) ==
    LET OfTicker(row) == row.ticker = ticker IN SelectSeq(log, OfTicker)

LedgerTickers(log) == { log[i].ticker : i \in 1..Len(log) }

CountRows(log, actions) ==
    Cardinality({ i \in 1..Len(log) : log[i].action \in actions })

C32_LedgerMatchesPortfolio ==
    []( /\ \A t \in LedgerTickers(trade_log) \cup HeldTickers(portfolio.positions) :
              LET rows == RowsOf(trade_log, t)
              IN  /\ \A i \in 1..Len(rows) :
                        IF i % 2 = 1 THEN IsEnter(rows[i]) ELSE IsExit(rows[i])
                  /\ Held(portfolio.positions, t) <=> (Len(rows) % 2 = 1)
        /\ CountRows(trade_log, {"ENTER"}) - CountRows(trade_log, ExitActions)
              = Len(portfolio.positions)
        /\ Cardinality(HeldTickers(portfolio.positions)) = Len(portfolio.positions) )

\* a ticker entered, exited and entered again, while another one is held
C32_Witness ==
    /\ \E t \in HeldTickers(portfolio.positions) : Len(RowsOf(trade_log, t)) = 3
    /\ Len(portfolio.positions) = 2

(***************************************************************************)
(* C33: the cash identity.  In every state of the backtest the cash is the *)
(* starting cash, less quantity x price of every ENTER row, plus quantity  *)
(* x price of every EXIT_TP and EXIT_SL row; a step that appends no row    *)
(* (a signal that is filtered out, vetoed or skipped, the valuation, an    *)
(* exit check that finds nothing) leaves the cash as it is.                *)
(***************************************************************************)
RowsWith(log, actions) == { i \in 1..Len(log) : log[i].action \in actions }

CashByLedger(log) ==
    start_cash - SumAmounts(log, RowsWith(log, {"ENTER"}))
               + SumAmounts(log, RowsWith(log, ExitActions))

C33_CashIdentity ==
    /\ [](portfolio.cash = CashByLedger(trade_log))
    /\ [][ portfolio'.cash # portfolio.cash => Len(trade_log') = Len(trade_log) + 1 ]_vars
    /\ [][ trade_log' = trade_log => portfolio'.cash = portfolio.cash ]_vars

\* the cash after two entries and an exit
C33_Witness ==
    /\ Cardinality(RowsWith(trade_log, {"ENTER"})) = 2
    /\ Cardinality(RowsWith(trade_log, ExitActions)) = 1
    /\ portfolio.cash # start_cash
    /\ pc = "finished"

(***************************************************************************)
(* C34: exits have the sign of their names, for BUY and for SELL: with a   *)
(* volatility above 0, an EXIT_TP credits more than the quantity x entry   *)
(* price deducted at the entry and an EXIT_SL credits less.                *)
(***************************************************************************)
ExitStep == Len(trade_log') > Len(trade_log) /\ IsExit(LastRow(trade_log'))

\* the cash credited by the exit of the step against the cost of its entry
ExitSigned(directions) ==
    ExitStep =>
       LET row == LastRow(trade_log')
           position == PositionOf(portfolio.positions, row.ticker)
           credited == portfolio'.cash - portfolio.cash
           deducted == position.quantity * position.entry_price
       IN  ( /\ position.signal \in directions
             /\ position.take_profit # position.entry_price )
           => /\ row.action = "EXIT_TP" => credited > deducted
              /\ row.action = "EXIT_SL" => credited < deducted

C34_ExitSigns == [][ ExitSigned({"BUY", "SELL"}) ]_vars

\* the same for the positions opened by a BUY alone
BuyExitSigns == [][ ExitSigned({"BUY"}) ]_vars

(***************************************************************************)
(* C35: no look-ahead.  The entry decision of day d depends on the price   *)
(* rows dated d or earlier only: with a price table that has the same rows *)
(* up to d and other rows after d, the entry step of day d, taken with the *)
(* same cash, positions and ranked signals, books the same.                *)
(***************************************************************************)
\* the tables that have the rows of df up to date d and any rows after it
SameUpTo(df, d) ==
    IF DOMAIN df = {} THEN {df}
    ELSE { [e \in Days |-> IF e <= d THEN df[e] ELSE later[e]] :
              later \in [Days -> DayRows] }

C35_NoLookAhead ==
    [][ EntryPhaseStep =>
          \A other \in SameUpTo(price_df, current_date) :
             EntryStep(portfolio, trade_log, other, current_date, ranked_signals')
                = Book(portfolio', trade_log') ]_vars

\* the same, for the tables that give the ticker of the top signal the trend
\* of the table of the run: the price, the size and the bracket of the entry
\* are those of date d
SameTrend(other, ranked) ==
    \/ ranked = <<>>
    \/ PrimaryTicker(ranked) \notin PriceTickers
    \/ Technical(other, PrimaryTicker(ranked)) = Technical(price_df, PrimaryTicker(ranked))

NoLookAheadBeyondTrend ==
    [][ EntryPhaseStep =>
          \A other \in SameUpTo(price_df, current_date) :
             SameTrend(other, ranked_signals') =>
                EntryStep(portfolio, trade_log, other, current_date, ranked_signals')
                   = Book(portfolio', trade_log') ]_vars

(***************************************************************************)
(* C36, as claimed: the cost of a new position never exceeds the           *)
(* cash-at-risk fraction: for every ENTER, quantity x entry price is at    *)
(* most 5% of the cash available immediately before the entry.             *)
(***************************************************************************)
EnterStep == EntryPhaseStep /\ trade_log' # trade_log

\* quantity x entry price of the ENTER row of the step
EntryCost == LastRow(trade_log').quantity * LastRow(trade_log').price

C36_CostWithinFraction ==
    [][ EnterStep => EntryCost * CashAtRiskDen <= portfolio.cash * CashAtRiskNum ]_vars

(***************************************************************************)
(* C36, amended: the share count is rounded to the nearest integer, so for *)
(* every ENTER quantity x entry price lies within half an entry price of   *)
(* 5% of the cash available immediately before the entry, above it or      *)
(* below it, and stays under twice that fraction (10% of the cash).        *)
(***************************************************************************)
C36_CostNearFraction ==
    [][ EnterStep =>
          /\ 2 * Abs(EntryCost * CashAtRiskDen - portfolio.cash * CashAtRiskNum)
                <= CashAtRiskDen * LastRow(trade_log').price
          /\ EntryCost * CashAtRiskDen < 2 * portfolio.cash * CashAtRiskNum
          /\ portfolio'.cash = portfolio.cash - EntryCost ]_vars

\* an entry that has just cost more than 5% of the cash it was sized on
C36_Witness ==
    /\ pc = "valuation"
    /\ trade_log # <<>>
    /\ IsEnter(LastRow(trade_log))
    /\ LastRow(trade_log).date = current_date
    /\ LET cost == LastRow(trade_log).quantity * LastRow(trade_log).price
       IN  cost * CashAtRiskDen > (portfolio.cash + cost) * CashAtRiskNum

(***************************************************************************)
(* C37: at most one ENTER row is appended per simulated day, however many  *)
(* signals qualify that day; the exit rows of a day are bounded only by    *)
(* the number of positions open when the day starts.                       *)
(***************************************************************************)
RowsOn(log, dates, actions) ==
    { i \in 1..Len(log) : log[i].date \in dates /\ log[i].action \in actions }

\* the positions open when day d starts, by the ledger
OpenAtStart(log, d) ==
    Cardinality(RowsOn(log, 1..(d - 1), {"ENTER"}))
       - Cardinality(RowsOn(log, 1..(d - 1), ExitActions))

C37_OneEntryPerDay ==
    []( \A d \in Days :
           /\ Cardinality(RowsOn(trade_log, {d}, {"ENTER"})) <= 1
           /\ Cardinality(RowsOn(trade_log, {d}, ExitActions)) <= OpenAtStart(trade_log, d) )

\* two positions were closed on the day, then two signals qualified and one
\* ENTER was appended
C37_Witness ==
    /\ pc = "valuation"
    /\ Len(ranked_signals) = 2
    /\ ranked_signals[1].tickers[1] # ranked_signals[2].tickers[1]
    /\ Cardinality(RowsOn(trade_log, {current_date}, ExitActions)) = 2
    /\ Cardinality(RowsOn(trade_log, {current_date}, {"ENTER"})) = 1

(***************************************************************************)
(* C38: a position is never exited on the day it was opened: every exit    *)
(* row is dated strictly later than the ENTER row it closes.  A ticker     *)
(* exited on a day can be entered again that day, so an exit row and an    *)
(* ENTER row of one ticker share a date only with the exit first.          *)
(***************************************************************************)
C38_NoSameDayExit ==
    []( \A j \in 1..Len(trade_log) :
           /\ IsExit(trade_log[j]) =>
                 /\ \E i \in 1..(j - 1) :
                       IsEnter(trade_log[i]) /\ trade_log[i].ticker = trade_log[j].ticker
                 /\ trade_log[EntryRowOf(trade_log, j - 1, trade_log[j].ticker)].date
                       < trade_log[j].date
           /\ \A i \in 1..(j - 1) :
                 ( /\ trade_log[i].ticker = trade_log[j].ticker
                   /\ trade_log[i].date = trade_log[j].date )
                 => IsExit(trade_log[i]) /\ IsEnter(trade_log[j]) )

\* a ticker exited and entered again on one day
C38_Witness ==
    \E j \in 2..Len(trade_log) :
       /\ IsExit(trade_log[j - 1]) /\ IsEnter(trade_log[j])
       /\ trade_log[j - 1].ticker = trade_log[j].ticker
       /\ trade_log[j - 1].date = trade_log[j].date

(***************************************************************************)
(* C39: the memory of the live bot on the failure paths.  When fetching    *)
(* the portfolio state fails, no news is gathered or no article is new,    *)
(* the cycle returns the set of seen links unchanged and submits no order. *)
(* When the cycle reaches its end, every link of its new articles is in    *)
(* the returned set, also when the order failed inside                     *)
(* execute_trade_signal or the trade was skipped by the allocation cap: a  *)
(* later cycle does not take that headline up again.                       *)
(***************************************************************************)
EndedEarly(lines) ==
    \/ Says(lines, "Error fetching portfolio state")
    \/ Says(lines, "No news was gathered in this cycle")
    \/ Says(lines, "No new news articles found in this cycle")

TradeFailedOrSkipped(lines) ==
    Says(lines, "Failed to execute trade") \/ Says(lines, "SKIPPING TRADE")

C39_MemoryOnFailure ==
    [][ CycleStep =>
          /\ EndedEarly(printed') =>
                /\ seen_news_links' = seen_news_links
                /\ submitted_orders' = submitted_orders
                /\ pipeline'.analysed_df = <<>>
          /\ ( pipeline'.all_news_df = <<>> \/ pipeline'.new_articles = <<>> )
                => EndedEarly(printed')
          /\ Says(printed', "Cycle complete") /\ ~EndedEarly(printed') =>
                seen_news_links' = seen_news_links \cup Links(pipeline'.new_articles)
          /\ TradeFailedOrSkipped(printed') =>
                /\ Says(printed', "Cycle complete")
                /\ ranked_signals' # <<>>
                /\ TopSignal(ranked_signals').link \in seen_news_links'
                /\ Links(pipeline'.new_articles) \subseteq seen_news_links'
          /\ \A i \in 1..Len(pipeline'.all_news_df) :
                pipeline'.all_news_df[i].link \in seen_news_links =>
                   /\ pipeline'.all_news_df[i].link \notin Links(pipeline'.analysed_df)
                   /\ pipeline'.all_news_df[i].link \notin Links(ranked_signals') ]_vars

\* the second cycle gathered a headline of the first and a new one; the
\* order for the new one failed in execute_trade_signal before anything was
\* submitted, and the links of both are in the set
C39_Witness ==
    /\ cycles = 2
    /\ submitted_orders = <<>>
    /\ pipeline.executed
    /\ Says(printed, "Failed to execute trade")
    /\ Says(printed, "Cycle complete")
    /\ Len(pipeline.all_news_df) = 2
    /\ Len(pipeline.new_articles) = 1
    /\ Links(pipeline.all_news_df) \subseteq seen_news_links
    /\ Cardinality(seen_news_links) = 2

(***************************************************************************)
(* C40: the live executor never submits an order with a quantity of 0 or   *)
(* less: when round(cash_to_use / last_price) <= 0 execute_trade_signal    *)
(* skips the trade and submit_order is not called, as in the entry of the  *)
(* backtest.                                                               *)
(***************************************************************************)
C40_PositiveQuantity ==
    \A i \in 1..Len(submitted_orders) : submitted_orders[i].qty > 0

\* what holds of the quantity of every order handed to submit_order
QuantityNotNegative ==
    \A i \in 1..Len(submitted_orders) : submitted_orders[i].qty >= 0

====
